--------------------------- MODULE CertifiedCopy ---------------------------
(***************************************************************************)
(* What a staging load promises: at most one copy of the source is ever    *)
(* certified, only when it is whole, and from then on it does not change.  *)
(* Any other copy may change at will.  StagingTransport implements it.     *)
(***************************************************************************)
CONSTANTS
  Copies,   \* the copies that may be attempted
  None,     \* no copy
  Whole     \* the content of a whole copy

VARIABLES
  content,   \* what each copy holds
  certified  \* the copy that evidence is on record for

copyVars == <<content, certified>>

Init == certified = None

\* Copies are made, broken and discarded, all but the certified one.
Work ==
  /\ \A c \in Copies : c = certified => content'[c] = content[c]
  /\ certified' = certified

Certify(c) ==
  /\ certified = None
  /\ content[c] = Whole
  /\ certified' = c
  /\ content' = content

Next == Work \/ \E c \in Copies : Certify(c)

Spec == Init /\ [][Next]_copyVars
=============================================================================
