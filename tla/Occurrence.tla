----------------------------- MODULE Occurrence -----------------------------
(* What the pools say of their channels: who is in one (Contains, of       *)
(* SequencesExt), and at most once.                                        *)
EXTENDS SequencesExt

Once(s, e) == \A i, j \in 1..Len(s) : s[i] = e /\ s[j] = e => i = j

=============================================================================
