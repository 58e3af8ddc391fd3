---- MODULE MCTcp ----
EXTENDS Tcp

MCIss == [x \in Side |-> IF x = "A" THEN 13 ELSE 5]
L(a, b, toB, toA, t, c) == [bytes |-> [x \in Side |-> IF x = "A" THEN a ELSE b],
   cap |-> [x \in Side |-> IF x = "A" THEN toA ELSE toB], ticks |-> t, closes |-> c]
MCLimits == {L(4, 0, 1, 1, -1, {}), L(3, 0, 2, 1, 1, {}), L(1, 1, 1, 1, 0, Side),
             L(1, 0, 1, 1, 1, Side), L(1, 0, 1, 1, -1, {"A"}), L(0, 0, 1, 1, -1, Side)}
CloseLimits == {L(3, 0, 2, 1, -1, {"A"})}
====
