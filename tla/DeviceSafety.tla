---------------------------- MODULE DeviceSafety ----------------------------
(***************************************************************************)
(* What the device of a tag promises: a text that agrees with the service, *)
(* buffers that are neither lost nor freed early, calls that end.          *)
(***************************************************************************)
EXTENDS TagDevice

-----------------------------------------------------------------------------
\* Groups of statements.

\* An update between its read of the table and the publication of its text.
Updating == {"up_load", "up_read", "up_lock", "up_build", "up_free",
             "up_assign"}
HoldsLock == {"mk_add", "mk_alloc", "mk_fill", "up_build", "up_free", "up_assign",
              "rm_dev", "rd_out"}
Creating == {"mk_load", "mk_lock", "mk_add", "mk_alloc", "mk_fill"}
Removing == {"rm_lock", "rm_dev", "rm_null", "rm_free"}
Other    == {"idle", "rc_count", "rc_wait", "rc_level", "opened", "rd_copy",
             "rd_lock", "oops"}

Texts  == [service : Services \cup {NULL}, line : [Levels -> Nat]]
NoOops == \A t \in Threads : ~At(t, "oops")

\* The device was created for the service of the entry and has its text, and
\* every receiver that has counted itself did so on that service.  (Between its
\* test of lazy_deleted and its count a receiver does not keep its service:
\* overtaken by a removal, it publishes the count of the removed service in
\* the text of the next one.  A creation that is overtaken leaves a device that
\* the next tag_get inherits.)
Settled ==
  /\ registered /\ entry # NULL
  /\ content \notin junk \cup {NULL} /\ text[content].service = entry
  /\ \A t \in Threads : /\ ~At(t, "mk_alloc")
                        /\ back[t] = "rc_wait" => ts[t] = entry

\* Level l has one receiver, which is not between a change of the count and
\* the end of its update.
Quiet(l) ==
  /\ Cardinality({t \in Threads : Level[t] = l /\ "receive" \in Program[t]}) < 2
  /\ \A t \in Threads : Level[t] = l => pc[t] \notin Updating

-----------------------------------------------------------------------------
\* Every variable keeps its type; tag_receive decrements what it incremented, on
\* services that are still its own, so no counter that the text shows is negative.
TypeOK ==
  /\ entry \in Services \cup {NULL}
  /\ live \in SUBSET Services
  /\ lazy_deleted \in [Services -> BOOLEAN]
  /\ count \in [Services -> Nat]
  /\ thread_waiting \in [Services -> [Levels -> Nat]]
  /\ registered \in BOOLEAN
  /\ device_lock \in Threads \cup {NULL}
  /\ content \in Buffers \cup {NULL}
  /\ buffers \in SUBSET Buffers
  /\ text \in [Buffers -> Texts]
  /\ junk \in SUBSET Buffers
  /\ pc \in [Threads -> Updating \cup HoldsLock \cup Creating \cup Removing
                        \cup Other]
  /\ ts \in [Threads -> Services \cup {NULL}]
  /\ dev \in [Threads -> Services \cup {NULL}]
  /\ buf \in [Threads -> Buffers \cup {NULL}]
  /\ waiting_n \in [Threads -> Nat]
  /\ back \in [Threads -> {"idle", "rc_wait"}]
  /\ file \in [Threads -> Services \cup {NULL}]

\* Two updates of different levels each rewrite a text that the other has just
\* rewritten (update_chrdev reads the old text and publishes the new one under
\* device_lock): no update is lost, and once the update of a level is over the
\* line of the level shows the threads that wait there.
LineExact ==
  Settled => \A l \in Levels :
    Quiet(l) => text[content].line[l] = thread_waiting[entry][l]

\* update_chrdev frees the old buffer before it publishes the new one, and
\* ts_destroy_char_device_file leaves the pointer behind: as long as the
\* device exists, whoever gets device_lock finds a buffer that is allocated,
\* whatever kmalloc returns.  If that is zeroed, the bytes are the text.
ContentPublished ==
  registered /\ device_lock = NULL =>
    content \in buffers /\ (InitOnAlloc => content \notin junk)

\* The buffer that every update allocates replaces one that is freed
\* (update_chrdev, and kfree in ts_destroy_char_device_file): no buffer is
\* lost, whatever receivers, creators and removers do.
NoBufferLeak ==
  buffers \subseteq {content} \cup {buf[t] : t \in Threads}

-----------------------------------------------------------------------------
\* Creation, removal, both updates of tag_receive and every ts_read wait for
\* device_lock, most of them with no way to give up: whoever holds it gives it
\* back, unless a thread is lost.
DeviceLockReleased ==
  device_lock # NULL ~> device_lock = NULL \/ ~NoOops

-----------------------------------------------------------------------------
\* Claims of the comments.

\* The text a reader copies in its RCU read section is not freed under it: the
\* one of an epoch "cannot be modified until all have read it".
ContentKept ==
  [][\A t \in Threads : At(t, "rd_copy") /\ buf[t] \in buffers
                         => buf[t] \in buffers']_vars
=============================================================================
