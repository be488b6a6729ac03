----------------------- MODULE MCGroupAdministration ------------------------
\* Small instances of GroupAdministration.
EXTENDS GroupAdministration, TLC

Symmetry == Permutations(Devices) \cup Permutations(Ops)

\* Once the request id is in use, three revisions are enough.
Few ==
  (\E r \in Requests : \/ receipt[r].status # "absent"
                       \/ \E o \in Ops : op[o].request = r) => Revision <= 3

\* No guard and no property of the run reads what was announced.
Unannounced == <<role, revoked, mode, leader, history, receipt, op>>
=============================================================================
