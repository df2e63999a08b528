-------------------------------- MODULE Writes --------------------------------
(***************************************************************************)
(* What a journal of writes promises: Discord carries out a write only     *)
(* while its intent is on disk, at most once per intent, and an intent of  *)
(* a write that was carried out leaves the disk only when the answer to it *)
(* is on disk. A crash is no step: nothing of this is kept in memory.      *)
(***************************************************************************)
CONSTANT Path  \* method and path of a write

VARIABLES
  open,  \* writes whose intent is on disk
  done,  \* of them, those Discord has carried out
  known  \* of them, those whose last answer is on disk

Init == open = {} /\ done = {} /\ known = {}

Open(p) ==
  /\ p \notin open
  /\ open' = open \cup {p} /\ UNCHANGED <<done, known>>
CarryOut(p) ==
  /\ p \in open \ done
  /\ done' = done \cup {p} /\ UNCHANGED <<open, known>>
Hear(p) ==
  /\ p \in open
  /\ known' \in {known \cup {p}, known \ {p}} /\ UNCHANGED <<open, done>>
Close(p) ==
  /\ p \in open /\ (p \in done => p \in known)
  /\ open' = open \ {p} /\ done' = done \ {p} /\ known' = known \ {p}

Next == \E p \in Path : Open(p) \/ CarryOut(p) \/ Hear(p) \/ Close(p)
Spec == Init /\ [][Next]_<<open, done, known>>
=============================================================================
