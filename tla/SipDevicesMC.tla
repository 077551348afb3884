---------------------------- MODULE SipDevicesMC ----------------------------
(* What one device sends: a REGISTER that is challenged and repeated with its *)
(* Authorization, keepalives, one of them without a CSeq, an INVITE; and a    *)
(* request that is refused.                                                   *)
EXTENDS SipDevices

CONSTANT d1

MCDevices == {d1}

Request(who, method, seq, auth) == [key |-> <<who, method, seq>>, auth |-> auth]

Session == {Request(d1, "REGISTER", 1, "none"), Request(d1, "REGISTER", 2, "good"),
            Request(d1, "MESSAGE", 1, "none"), Request(d1, "MESSAGE", 0, "none")}
Refused == {Request(d1, "INVITE", 1, "none"),
            Request(Nobody, "OTHER", 1, "none")}
MCRequests == Session \cup Refused
=============================================================================
