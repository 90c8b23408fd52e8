----------------------------- MODULE FrameMailbox -----------------------------
(***************************************************************************)
(* What a wait-queue flag shared by a producer and one worker thread       *)
(* promises: a mailbox with one slot.  A post while the slot is full or    *)
(* the worker is busy is merged with the one before it; the worker takes   *)
(* what was posted while it waited, exactly once.                          *)
(***************************************************************************)
VARIABLES pending, busy

mailVars == <<pending, busy>>

MailInit == pending = FALSE /\ busy = FALSE

Post == pending' = TRUE /\ UNCHANGED busy

Take == pending /\ ~busy /\ busy' = TRUE /\ UNCHANGED pending

(* The worker empties the slot as it goes back to waiting: a post since    *)
(* Take is dropped here.                                                   *)
Finish == busy /\ busy' = FALSE /\ pending' = FALSE

MailNext == Post \/ Take \/ Finish

MailSpec == MailInit /\ [][MailNext]_mailVars

FairSpec == MailSpec /\ WF_mailVars(Take) /\ WF_mailVars(Finish)
===============================================================================
