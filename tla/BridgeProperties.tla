--------------------------- MODULE BridgeProperties ---------------------------
(* What clients of the bridge, its operator and the owners of sources rely on. *)
EXTENDS Bridge

\* A request that is repeated under its key stays one source: however aliases
\* are bound again in between, all answers to one alias request, and all answers
\* that name one space, are of the same content and the same archive.
OneArchivePerKey ==
    \A x, y \in acks :
        LET SameKey  == x.req.client = y.req.client /\ x.req.key = y.req.key
            SameName == \/ x.space = y.space
                        \/ /\ x.req.to = y.req.to /\ x.req.to \in Kinds
                           /\ x.req.space = NoSpace /\ y.req.space = NoSpace
        IN SameKey /\ SameName =>
             x.space = y.space /\ x.archive = y.archive /\ x.req.payload = y.req.payload

\* What leaves the bridge, and what enters it, is allowed when the answer is
\* committed and not only when it was looked up: the client is active, it holds
\* the right for every space concerned, and every source served is live.
ServedWithinGrants ==
    [][\A t \in Txns :
         /\ Accept(t) =>
              active[Client(t)] /\ "write" \in grants[Client(t)][txn[t].dest]
         /\ Respond(t) =>
              /\ active[Client(t)]
              /\ \A s \in txn[t].locked : s \in Permitted(Client(t), "read")
              /\ \A a \in txn[t].items :
                   archives[a].live /\ archives[a].space \in Permitted(Client(t), "read")]_vars
=============================================================================
