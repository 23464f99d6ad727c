-------------------------- MODULE MCDurableService --------------------------
(***************************************************************************)
(* Small instances of DurableService.                                      *)
(***************************************************************************)
EXTENDS DurableService

Worker(n, c) == [node |-> n, role |-> "edge-worker", cert |-> c]
Admin(n, c) == [node |-> n, role |-> "admin", cert |-> c]
Update(n, k, t, round, len) ==
    [node |-> n, nonce |-> k, issuedAt |-> t, round |-> round, length |-> len]

\* Rounds: two workers, of which one sends updates for two rounds, the other
\* updates of two lengths.
RoundNodes == {"w1", "w2"}
RoundPeers == {Worker("w1", "c1"), Worker("w2", "c2")}
RoundRequests ==
    {Update("w1", 1, 1, 0, 1), Update("w1", 2, 2, 1, 1),
     Update("w2", 1, 1, 0, 1), Update("w2", 2, 2, 0, 2)}

\* Credentials: a worker and an admin.
CredentialNodes == {"w1", "adm"}
CredentialPeers == {Worker("w1", "c1"), Admin("adm", "c2")}
CredentialRequests == {Update("w1", 1, 1, 0, 1), Update("adm", 1, 2, 0, 1)}

\* Replays: one worker, whose certificate may be renewed and whose calls are
\* delivered again and again.  The first is stamped ahead of the clock: its
\* nonce, seen at 1, is forgotten at 3, when the call is still fresh.
ReplayNodes == {"w1"}
ReplayPeers == {Worker("w1", "c1"), Worker("w1", "c2")}
ReplayRequests == {Update("w1", 1, 2, 0, 1), Update("w1", 2, 2, 1, 1)}
=============================================================================
