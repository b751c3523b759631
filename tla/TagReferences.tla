---------------------------- MODULE TagReferences ---------------------------
(***************************************************************************)
(* The reference count of the kernel module.  Each of the four system      *)
(* calls takes a reference first, and each of its exits gives it back with *)
(* a module_put of its own: this module adds the count, and the list of    *)
(* those statements, to TagService.  An exit is named by the statement of  *)
(* TagService it leaves from, or by the call if that refuses its arguments,*)
(* and by the result.                                                      *)
(***************************************************************************)
EXTENDS TagService

CONSTANT MaxLeaked     \* bounds the references that are lost

VARIABLES
  refcnt,              \* the reference count of the module
  leaked               \* history: references that nobody will give back

refVars == <<vars, refcnt, leaked>>

RefInit == Init /\ refcnt = 0 /\ leaked = 0

-----------------------------------------------------------------------------
\* The exits with a module_put.

\* A wrong tag_get_puts: none where OPEN_TAG finds a deleted service.
tag_get_puts_deleted ==
  {<<"tag_get", "EINVAL">>, <<"find_full", "ENOMEM">>, <<"dev_fill", "OK">>}
  \cup {"get_cs"} \X {"ENOKEY", "EFAULT", "ENOMEM", "EBADR"}
  \cup {"open_check"} \X {"EACCES", "OK"}

tag_get_puts ==
  {<<"tag_get", "EINVAL">>, <<"find_full", "ENOMEM">>, <<"dev_fill", "OK">>}
  \cup {"get_cs"} \X {"ENOKEY", "EFAULT", "ENOMEM", "EBADR"}
  \cup {"open_check"} \X {"EBADR", "EACCES", "OK"}

\* EINVAL is that of the level: see SendBadTag.
tag_send_puts ==
  {"tag_send"} \X {"EINVAL", "EBADF"}
  \cup {"send_cs"} \X {"EBADF", "EACCES"}
  \cup {"send_rcu", "send_discard"} \X {"EMSGSIZE", "OK"}

tag_receive_puts ==
  {"tag_receive"} \X {"EINVAL", "EBADF"}
  \cup {"recv_check"} \X {"EBADF", "EACCES"}
  \cup {"recv_dec_level"} \X {"EINTR", "OK"}

tag_ctl_puts ==
  {"tag_ctl"} \X {"EINVAL", "EBADF"}
  \cup {"ctl_cs"} \X {"OK", "EACCES", "EBUSY"}
  \cup {"rm_free", "aw_rcu", "aw_reset"} \X {"OK"}

Puts == tag_get_puts \cup tag_send_puts \cup tag_receive_puts \cup tag_ctl_puts

\* What an exit of t takes off the count.
put(t, from) ==
  IF pc'[t] = "idle" /\ <<from, ret'[t]>> \in Puts THEN 1 ELSE 0

-----------------------------------------------------------------------------
\* try_module_get, and module_put if the call is refused at once.
Counted(t, call) ==
  /\ refcnt' = refcnt + 1 - put(t, call)
  /\ UNCHANGED leaked

Begin(t) ==
  \/ (TagGet(t) \/ TagGetInvalid(t)) /\ Counted(t, "tag_get")
  \/ TagSend(t) /\ Counted(t, "tag_send")
  \/ TagReceive(t) /\ Counted(t, "tag_receive")
  \/ TagCtl(t) /\ Counted(t, "tag_ctl")

\* The error path of tag_send for a tag out of range: no module_put.
SendBadTag(t) ==
  /\ At(t, "idle") /\ "send" \in Program[t]
  /\ leaked < MaxLeaked
  /\ Refuse(t, "EINVAL")
  /\ refcnt' = refcnt + 1
  /\ leaked' = leaked + 1
  /\ UNCHANGED kernelVars

Continue(t) ==
  /\ Step(t) \/ MutexLock(t) \/ Signal(t)
  /\ refcnt' = refcnt - put(t, pc[t])
  /\ UNCHANGED leaked

RefNext ==
  \/ \E t \in Threads : Begin(t) \/ SendBadTag(t) \/ Continue(t)
  \/ RunCallback /\ UNCHANGED <<refcnt, leaked>>

RefSpec == RefInit /\ [][RefNext]_refVars

-----------------------------------------------------------------------------
\* The count is that of the threads that are inside a call, and of the calls
\* of tag_send refused for their tag: whichever way a call ends - refused
\* before or after the unlock, interrupted, its message cut, its service gone -
\* it gives back the one reference it took, and nothing else keeps the module.
\* A sleeping receiver keeps it, and so does a thread that was lost.
RefsExact ==
  refcnt = Cardinality({t \in Threads : pc[t] # "idle"}) + leaked
=============================================================================
