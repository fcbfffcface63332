--------------------------- MODULE MCConfirmations ---------------------------
(* Two selected interests of one client and one professional, and an       *)
(* urgent request the professional is told of.                             *)
EXTENDS Confirmations

CONSTANTS i1, i2, pub, caio, paula, phone

TwoInterests == {i1, i2}
Publications == {pub}
AllEvents == {i1, i2, pub}
TheUsers == {caio, paula}
OnePhone == {phone}
Client == [i \in Interests |-> caio]
TheCompatible == [e \in Urgent |-> {paula}]
Professional == [i \in Interests |-> paula]

\* The client has e-mail, the professional push and, at first, WhatsApp.
TheWishes == [u \in Users |-> IF u = caio THEN {{"email"}} ELSE {{"push", "whatsapp"}, {}}]
Contacts == [u \in Users |-> IF u = caio THEN {"push", "email"} ELSE Channels]
=============================================================================
