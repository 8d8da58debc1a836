---------------------------- MODULE ContentStore ----------------------------
(***************************************************************************)
(* What the blob store promises: a content digest is published at most     *)
(* once, what is published under it stays and never changes, and its URI   *)
(* is given out only then. The content is the one the digest says, except  *)
(* for blobs so large that they are uploaded in parts (Unverified).        *)
(***************************************************************************)
CONSTANTS Digest, Unverified

VARIABLES
  content,  \* the bytes published under each digest
  told      \* the digests whose URI someone was given

None == "none"
Content(d) == IF d \in Unverified THEN {"right", "wrong"} ELSE {"right"}

Init == content = [d \in Digest |-> None] /\ told = {}

Publish(d, c) ==
  /\ content[d] = None
  /\ content' = [content EXCEPT ![d] = c]
  /\ told' \in {told, told \cup {d}}

Tell(d) ==
  /\ content[d] # None
  /\ told' = told \cup {d}
  /\ UNCHANGED content

Next == \E d \in Digest : Tell(d) \/ \E c \in Content(d) : Publish(d, c)

Spec == Init /\ [][Next]_<<content, told>>
=============================================================================
