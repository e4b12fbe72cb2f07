----------------------------- MODULE MCDispatcher -----------------------------
(***************************************************************************)
(* One chat with a save, an edit and a deletion, the connection's own      *)
(* update and an update of no known type, on two workers with a queue of   *)
(* one: the chat fills its queue, so its later updates are deferred while  *)
(* the others pass.                                                        *)
(***************************************************************************)
EXTENDS Dispatcher

MCUpdate(k, c) == [kind |-> k, conn |-> "c", chat |-> c]

MCFeed == << MCUpdate("message", "A"), MCUpdate("edited", "A"),
             MCUpdate("connection", "-"), MCUpdate("deleted", "A"),
             MCUpdate("other", "-") >>

MCShards == {1, 2}

MCKeys == {ShardKey(u) : u \in 1..Len(MCFeed)}

MCShardHash == [k \in MCKeys |-> IF k[1] = "chat" /\ k[3] = "A" THEN 1 ELSE 2]
===============================================================================
