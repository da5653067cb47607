---------------------------- MODULE DeadLetters ----------------------------
(***************************************************************************)
(* What the smart inbox promises about its dead-letter queue, whoever      *)
(* replays and resolves at once: a letter waits, is taken up by one or     *)
(* more replays, and is answered for.  It leaves the queue as replayed     *)
(* only from the hands of a replay whose key the network has published, as *)
(* already delivered only when its message had gone out, and by hand only  *)
(* while it is open; and it comes back only from the hands of a replay     *)
(* that had taken it up and failed.  Replays may die, with nothing said of *)
(* the letters in their hands.                                             *)
(***************************************************************************)
EXTENDS Naturals, Sequences

CONSTANTS Replayers

VARIABLES
  letters,  \* the status of each letter, in the order they were filed
  hands,    \* hands[f]: who is replaying letter f
  answered, \* letters under whose key the network has published
  gone      \* letters whose message has had some reply published

vars == <<letters, hands, answered, gone>>

Open == {"pending_retry", "replaying"}

Init == letters = <<>> /\ hands = <<>> /\ answered = {} /\ gone = {}

\* A reply that failed is filed; the network may have published it all the same.
File ==
  /\ letters' = Append(letters, "pending_retry") /\ hands' = Append(hands, {})
  /\ \E A, G \in SUBSET {Len(letters) + 1} : answered' = answered \cup A /\ gone' = gone \cup G

TakeUp(h, f) ==
  /\ letters[f] \in Open /\ \A g \in DOMAIN letters : h \notin hands[g]
  /\ letters' = [letters EXCEPT ![f] = "replaying"]
  /\ hands' = [hands EXCEPT ![f] = @ \cup {h}]
  /\ UNCHANGED <<answered, gone>>

\* The replay that had the letter lets go of it.
LetGo(h, f, s) ==
  /\ h \in hands[f]
  /\ letters' = [letters EXCEPT ![f] = s] /\ hands' = [hands EXCEPT ![f] = @ \ {h}]
  /\ UNCHANGED <<answered, gone>>

GiveBack(h, f) == LetGo(h, f, "pending_retry")
Close(h, f) == f \in answered /\ LetGo(h, f, "replayed")

\* Found delivered when a replay was asked for.
Dismiss(f) ==
  /\ f \in gone
  /\ letters' = [letters EXCEPT ![f] = "already_delivered"]
  /\ UNCHANGED <<hands, answered, gone>>

\* Operators resolve open letters, several at once.
Resolve(F) ==
  /\ \A f \in F : letters[f] \in Open
  /\ letters' = [f \in DOMAIN letters |-> IF f \in F THEN "manual_followup" ELSE letters[f]]
  /\ UNCHANGED <<hands, answered, gone>>

\* The network publishes: once published is published for good.
Publish ==
  /\ UNCHANGED <<letters, hands>>
  /\ answered \subseteq answered' /\ gone \subseteq gone' /\ answered' \cup gone' \subseteq DOMAIN letters

\* Replays die.
Drop(H) ==
  /\ hands' = [f \in DOMAIN hands |-> hands[f] \ H]
  /\ UNCHANGED <<letters, answered, gone>>

Work ==
  \/ Publish \/ File
  \/ \E f \in DOMAIN letters :
       Dismiss(f) \/ \E h \in Replayers : TakeUp(h, f) \/ GiveBack(h, f) \/ Close(h, f)
  \/ \E F \in SUBSET (DOMAIN letters) : Resolve(F)

Next == Work \/ \E H \in SUBSET Replayers : Drop(H)

Spec == Init /\ [][Next]_vars
=============================================================================
