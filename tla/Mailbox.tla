------------------------------ MODULE Mailbox ------------------------------
(***************************************************************************)
(* What a message box of p7r promises to the carriers on its two ends:     *)
(* messages are delivered in the order in which they were accepted, each   *)
(* one once.  The double buffer of p7r/p7r_cpbuffer.h implements it.        *)
(***************************************************************************)
EXTENDS Sequences, Naturals

CONSTANT Message

VARIABLES accepted,     \* every message put into the box, oldest first
          delivered     \* every message taken out of it, oldest first

mailboxVars == <<accepted, delivered>>

MailboxInit == accepted = <<>> /\ delivered = <<>>

Accept(m) ==
    /\ accepted' = Append(accepted, m)
    /\ UNCHANGED delivered

Deliver ==
    /\ Len(delivered) < Len(accepted)
    /\ delivered' = Append(delivered, accepted[Len(delivered) + 1])
    /\ UNCHANGED accepted

MailboxNext == Deliver \/ \E m \in Message : Accept(m)

MailboxSpec == MailboxInit /\ [][MailboxNext]_mailboxVars
=============================================================================
