----------------------------- MODULE MCIntents -----------------------------
(* Small instances of Intents: keys a and c on shard 1, b on shard 2.       *)
EXTENDS Intents

T(keys) == [kind |-> "txn", keys |-> keys]
P(keys) == [kind |-> "point", keys |-> keys]

Owners == [k \in Key |-> IF k = "b" THEN 2 ELSE 1]

(* Two transactions on the same keys, one behind a point command of its     *)
(* connection and one ahead of a point command on two keys.                 *)
Pair == [c \in Conn |-> IF c = 1 THEN <<T({"a", "b", "c"}), P({"a", "c"})>>
                        ELSE <<P({"b"}), T({"a", "b", "c"})>>]

(* Three transactions that want the same key: each an EXEC of one key.      *)
Crowd == [c \in Conn |-> <<T({"a"})>>]

(* A point command, then a transaction on its key, beside another one.      *)
Cut == [c \in Conn |-> IF c = 1 THEN <<P({"a"}), T({"a"})>> ELSE <<T({"a"})>>]

(* A point command on two keys, each wanted by a transaction.               *)
Wide == [c \in Conn |-> IF c = 1 THEN <<P({"a", "c"})>>
                        ELSE IF c = 2 THEN <<T({"a", "b"})>> ELSE <<T({"c"})>>]
=============================================================================
