----------------------------- MODULE MCTunnels -----------------------------
(* Small instances of Tunnels.                                             *)
EXTENDS Tunnels, TLC

CONSTANTS alice, bob, stranger

MCClient == {alice, bob}
MCCreds == {alice, bob, stranger}
MCUser == {"alice", "bob"}
MCUserOf == alice :> "alice" @@ bob :> "bob"
MCDecodeUsername == alice :> "alice" @@ bob :> "bob" @@ stranger :> NoName
MCDefaultMax == [k \in Class |-> IF k = "Http3" THEN NoLimit ELSE 1]
MCMaxConns ==
    [c \in MCClient |->
        [k \in Class |-> IF c = bob /\ k = "Http2" THEN 2
                         ELSE IF c = alice /\ k = "Http3" THEN 1 ELSE NoLimit]]
MCSymmetry == Permutations(Conn)
=============================================================================
