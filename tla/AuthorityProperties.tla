------------------------- MODULE AuthorityProperties -------------------------
(***************************************************************************)
(* What holds of guarded authority writes however requests overlap.        *)
(***************************************************************************)
EXTENDS Authority

Acyclic(E) == \A e \in E : ~Reaches(E, e[2], e[1])

\* Supersession stays inside one scope and never closes a cycle, also when
\* two clients supersede in opposite directions at the same time.
SupersessionIsAcyclic ==
    /\ \A e \in edges : rows[e[1]] # NoRow /\ rows[e[1]].scope = rows[e[2]].scope
    /\ \A s \in Scopes : Acyclic(Scope(s).edges)

\* the write of p is the one that commits
Applies(p) == pc[p] = "commit" /\ pc'[p] = "idle" /\ receipts' # receipts

\* A guarded mutation is applied only to the state its client was shown: what
\* was answered as eligible together with the digest is eligible now, although
\* the digest and the answer come from different statements.
AppliedToTheStateShown ==
    [][\A p \in Slots : Applies(p) /\ msg[p].op # Creation =>
         LET c == msg[p].client  s == msg[p].scope IN
         /\ Scope(s) = msg[p].expect
         /\ views[c][s].digest = msg[p].expect => views[c][s].shown = Eligible(Scope(s))]_vars

\* A request that was applied is answered from its receipt when it is repeated,
\* even while the first is still running: none that goes on to the guards has a
\* receipt, so none is refused as stale or rejected by a primary key.
RetryIsReplayed ==
    \A p \in Slots : HoldsReceipt(p) => receipts[<<msg[p].client, msg[p].key>>] = {}

\* No write of a client commits after its revocation or the loss of its grant.
RevokedNeverWrites ==
    [][\A p \in Slots : Applies(p) =>
         {"active", Capability(msg[p])} \subseteq perm[msg[p].client]]_vars

\* withdrawn, disputed or superseded
Retired(r) ==
    \/ rows[r].status \in {"withdrawn", "disputed"}
    \/ \E e \in edges : e[2] = r

\* What was withdrawn, disputed or superseded never carries authority again: no
\* activation or supersession that was validated before, and no repeated one,
\* brings it back, nor the withdrawal of what superseded it.
RetiredStaysRetired ==
    [][\A r \in Records : Retired(r) => Retired(r)']_vars

-----------------------------------------------------------------------------
(* Why the answer and the digest agree *)

\* a record is proposed, then active, then withdrawn or disputed
Rank(status) ==
    IF status \in {"absent", "unread"} THEN 0
    ELSE IF status = "proposed" THEN 1
    ELSE IF status = "active" THEN 2 ELSE 3

Later(old, new) == \A r \in Records : Rank(old[r]) <= Rank(new[r])
Grows(g, h)     == Later(g.rows, h.rows) /\ g.edges \subseteq h.edges

\* the statuses a read of the rows may find
ReadStatuses == [Records -> Lifecycle \union {"absent"}]

\* what a read in progress has seen is no later than the tables
Reading(c) ==
    LET rd == reader[c] IN
    /\ rd.digest.edges \subseteq EdgesAmong(rd.digest.rows)
    /\ rd.at \in {"idle", "edges"} => rd.digest.edges = {}
    /\ rd.at # "idle" => /\ rd.scope \in Scopes /\ rd.digest.rows \in ReadStatuses
                         /\ Later(rd.digest.rows, RowsOf(rd.scope))
    /\ rd.at = "show" => /\ rd.again \in ReadStatuses
                         /\ Later(rd.digest.rows, rd.again)
                         /\ Later(rd.again, RowsOf(rd.scope))

\* what was shown is so in some graph between the digest and the scope
Shown(c, s) ==
    \E g \in Graph : /\ views[c][s].shown = Eligible(g)
                     /\ Grows(views[c][s].digest, g) /\ Grows(g, Scope(s))

InOrder == \A c \in Clients : Reading(c) /\ \A s \in Scopes : Shown(c, s)

=============================================================================
