-------------------------- MODULE MCIrcConnection --------------------------
(* One channel.  The servers differ in whether they know capabilities,     *)
(* which ones they grant, and whether they take the password.              *)
EXTENDS IrcConnection

MCChannels == {"#home"}

Kind(sasl, cap, offers, accepts) ==
    [sasl |-> sasl, cap |-> cap, offers |-> offers, accepts |-> accepts]

MCKinds == { Kind(FALSE, TRUE, Caps, FALSE), Kind(TRUE, FALSE, {}, FALSE), Kind(TRUE, TRUE, {"account-tag"}, FALSE),
             Kind(TRUE, TRUE, {"sasl"}, TRUE), Kind(TRUE, TRUE, Caps, FALSE) }
=============================================================================
