---------------------------- MODULE MCTagDevice -----------------------------
(* Instances of TagDevice for TLC. *)
EXTENDS DeviceSafety, TLC
CONSTANTS t1, t2, t3

\* One receiver on each of two levels; one of them also reads the device, the
\* other also removes the tag, against the creator, the reader or a receiver.
DeviceProgram == (t1 :> {"create"}) @@ (t2 :> {"receive", "read"})
                 @@ (t3 :> {"receive", "remove"})
OnLevels      == [t \in Threads |-> IF t = t3 THEN 1 ELSE 0]

\* The smallest cast that rewrites a text under a reader.
ReaderProgram == (t1 :> {"create"}) @@ (t2 :> {"receive"})
                 @@ (t3 :> {"read"})
=============================================================================
