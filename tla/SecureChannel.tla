---------------------------- MODULE SecureChannel ----------------------------
(* What a secure session promises to the code above it: whatever the link     *)
(* underneath loses, repeats or reorders, each direction of each session      *)
(* delivers a prefix of what was sealed for it, and what was delivered is     *)
(* never taken back.                                                          *)
EXTENDS Sequences, SequencesExt

CONSTANT Ways \* the directions of the sessions

VARIABLES sent, got \* per way, the messages sealed and the messages opened

Init == sent = [w \in Ways |-> <<>>] /\ got = [w \in Ways |-> <<>>]

Exchange(w) ==
    /\ IsPrefix(sent[w], sent'[w])
    /\ IsPrefix(got[w], got'[w])
    /\ IsPrefix(got'[w], sent'[w])

Next == DOMAIN sent' = Ways /\ DOMAIN got' = Ways /\ \A w \in Ways : Exchange(w)

Spec == Init /\ [][Next]_<<sent, got>>
=============================================================================
