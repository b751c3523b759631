----------------------------- MODULE DeviceText -----------------------------
(***************************************************************************)
(* The bytes of the device of a tag: how ts_create_char_device_file        *)
(* formats them and how update_chrdev splices another count into a line    *)
(* (src/tag_device_driver.c).  TagDevice has who calls these and when, and *)
(* takes the text as one count per level.                                  *)
(*                                                                         *)
(* A text is a sequence of characters, without the final NUL.  Memory past *)
(* that NUL is zeroed, as TagDevice requires with InitOnAlloc.             *)
(***************************************************************************)
EXTENDS Integers, Sequences, FiniteSets, FiniteSetsExt, SequencesExt

CONSTANTS
  MAX_TAG_SERVICES,
  MAX_LEVELS,
  BUFSIZE,         \* bytes of a buffer for the text
  WAITING,         \* bytes of the buffer for a count
  Keys,            \* values of ts->key (-1 for IPC_PRIVATE)
  Euids,           \* values of ts->owner_euid
  Counts,          \* values of thread_waiting
  Used             \* levels on which somebody receives

ASSUME TextAssumption ==
  /\ MAX_TAG_SERVICES \in Nat \ {0} /\ MAX_LEVELS \in Nat \ {0}
  /\ BUFSIZE \in Nat /\ WAITING \in Nat
  /\ Keys \subseteq Int /\ Euids \subseteq Int /\ Counts \subseteq Nat
  /\ Used \subseteq 0 .. MAX_LEVELS - 1

VARIABLES
  key, owner_euid,       \* fields of the service
  thread_waiting,        \* its count of each level
  content                \* the text; empty until the device is created

vars == <<key, owner_euid, thread_waiting, content>>

-----------------------------------------------------------------------------
\* Characters: a digit is itself.
Digit == 0 .. 9
TAB == 10
NEWLINE == 11
MINUS == 12
LETTER == 13
Character == Digit \cup {TAB, NEWLINE, MINUS, LETTER}

\* "KEY\tEUID\tLEVEL\t#THREADS\n"
header == [i \in 1 .. 24 |-> CASE i \in {4, 9, 15} -> TAB
                               [] i = 24 -> NEWLINE
                               [] OTHER -> LETTER]

Abs(n) == IF n < 0 THEN -n ELSE n

\* %d and %lu.
DigitsOf[n \in Nat] ==
  IF n < 10 THEN <<n>> ELSE Append(DigitsOf[n \div 10], n % 10)
Decimal(n) == (IF n < 0 THEN <<MINUS>> ELSE << >>) \o DigitsOf[Abs(n)]

\* The divisions by 10 that leave 0.
Divisions[n \in Nat] == IF n = 0 THEN 0 ELSE Divisions[n \div 10] + 1
\* Wrong version: the sign is not counted.
CountCharsUnsigned(n) == IF n = 0 THEN 1 ELSE Divisions[Abs(n)]
countCharsOfNumber(n) ==
  IF n = 0 THEN 1 ELSE Divisions[Abs(n)] + (IF n < 0 THEN 1 ELSE 0)

-----------------------------------------------------------------------------
\* One line of the device, and what snprintf leaves of it: one byte of its
\* width is for the NUL, and the key is given the width of MAX_TAG_SERVICES.
Line(k, e, l, n) ==
  Decimal(k) \o <<TAB>> \o Decimal(e) \o <<TAB>> \o Decimal(l) \o <<TAB>>
    \o Decimal(n) \o <<NEWLINE>>

Width(e, n) == countCharsOfNumber(MAX_TAG_SERVICES) + countCharsOfNumber(e)
               + countCharsOfNumber(MAX_LEVELS) + countCharsOfNumber(n) + 5

\* The counts fit into their buffer (of ten bytes, and there are fewer threads
\* than ten digits count), and the widest lines, with one more count, into the
\* half buffers of update_chrdev (with 512 tags, 32 levels and 4096 bytes they
\* do for any key and user).
ASSUME WidthAssumption ==
  /\ \A n \in Counts \cup {0} : Len(Decimal(n)) < WAITING
  /\ \A e \in Euids :
       Len(header) + MAX_LEVELS * (Width(e, 0) + WAITING - 3) + WAITING - 1
         < BUFSIZE \div 2

Cut(s, n) == SubSeq(s, 1, Min({Len(s), n}))

FirstText(k, e, w) ==
  header \o FlattenSeq([i \in 1 .. MAX_LEVELS |->
                          Cut(Line(k, e, i - 1, w[i - 1]),
                              Width(e, w[i - 1]) - 1)])

\* Where the line of a level ends: at newline number level + 2 (the header has
\* the first), or at the NUL.
NewlinesOf(x) == {p \in DOMAIN x : x[p] = NEWLINE}
\* Wrong version: the header is forgotten.
LineEndNoHeader(x, level) ==
  IF Cardinality(NewlinesOf(x)) < level + 1
  THEN Len(x) + 1
  ELSE CHOOSE p \in NewlinesOf(x) :
         Cardinality({q \in NewlinesOf(x) : q <= p}) = level + 1
LineEnd(x, level) ==
  IF Cardinality(NewlinesOf(x)) < level + 2
  THEN Len(x) + 1
  ELSE CHOOSE p \in NewlinesOf(x) :
         Cardinality({q \in NewlinesOf(x) : q <= p}) = level + 2

\* The field between the last tab and that end becomes the count n; strncat
\* copies at most half a buffer of each part.
LastTab(x, end) == Max({p \in 1 .. end - 1 : x[p] = TAB})
Join(a, b, c)   == Cut(a, BUFSIZE \div 2) \o b \o Cut(c, BUFSIZE \div 2)
\* Wrong version: the rest starts after the newline.
SpliceNoNewline(x, level, n) ==
  LET end == LineEnd(x, level)
  IN Join(SubSeq(x, 1, LastTab(x, end)), Decimal(n),
          SubSeq(x, end + 1, Len(x)))
\* Wrong version: the rest is copied from the start of the text, not from end.
SpliceAll(x, level, n) ==
  LET end == LineEnd(x, level)
  IN Join(SubSeq(x, 1, LastTab(x, end)), Decimal(n), x)
Splice(x, level, n) ==
  LET end == LineEnd(x, level)
  IN Join(SubSeq(x, 1, LastTab(x, end)), Decimal(n), SubSeq(x, end, Len(x)))

-----------------------------------------------------------------------------
Init ==
  /\ key \in Keys /\ owner_euid \in Euids
  /\ thread_waiting = [l \in 0 .. MAX_LEVELS - 1 |-> 0]
  /\ content = << >>

\* The service can have receivers before its device has a text.
ReceiveEarly(l, n) ==
  /\ content = << >>
  /\ thread_waiting' = [thread_waiting EXCEPT ![l] = n]
  /\ UNCHANGED <<key, owner_euid, content>>

CreateText ==
  /\ content = << >>
  /\ content' = FirstText(key, owner_euid, thread_waiting)
  /\ UNCHANGED <<key, owner_euid, thread_waiting>>

\* update_chrdev after the count of level l has become n.
Update(l, n) ==
  /\ content # << >>
  /\ thread_waiting' = [thread_waiting EXCEPT ![l] = n]
  /\ content' = Splice(content, l, n)
  /\ UNCHANGED <<key, owner_euid>>

Next == \/ CreateText
        \/ \E l \in Used, n \in Counts : ReceiveEarly(l, n) \/ Update(l, n)

Spec == Init /\ [][Next]_vars

-----------------------------------------------------------------------------
\* Types; and no sequence of updates makes the text longer than the half
\* buffers (after_string) it is cut into.
TypeOK ==
  /\ key \in Keys /\ owner_euid \in Euids
  /\ thread_waiting \in [0 .. MAX_LEVELS - 1 -> Counts \cup {0}]
  /\ content \in Seq(Character) /\ Len(content) < BUFSIZE \div 2

\* snprintf keeps the newline of level l.
Fits(l) == Len(Decimal(key)) + Len(Decimal(l))
             <= Len(Decimal(MAX_TAG_SERVICES)) + Len(Decimal(MAX_LEVELS))

\* The text that the README describes.
Document ==
  header \o FlattenSeq([i \in 1 .. MAX_LEVELS |->
              Line(key, owner_euid, i - 1, thread_waiting[i - 1])])

\* update_chrdev finds its line by counting newlines and its field by looking
\* for the tab before it: after any updates of any levels, with counts of any
\* length, the text is the one that formatting the service again would give,
\* if the key is short enough for every line.
TextExact ==
  content # << >> /\ (\A l \in DOMAIN thread_waiting : Fits(l)) =>
    content = Document

\* snprintf keeps the tab after the key.  It does for ten characters; with the
\* eleven of a negative key, and a user id of one digit, it does not.
TabKept == Len(Decimal(key)) + 2 <= Width(owner_euid, 0)

\* A line whose key is too long for the width given to snprintf loses its
\* newline; exactly these do, and update_chrdev, even when it then rewrites the
\* wrong field, neither adds nor drops a line.  (Without a tab in the line it
\* does: it takes the end of the header for the field.)
LinesKept ==
  content # << >> /\ TabKept =>
    Cardinality(NewlinesOf(content)) =
      1 + Cardinality({l \in DOMAIN thread_waiting : Fits(l)})
=============================================================================
