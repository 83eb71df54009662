--------------------------- MODULE MCZkEphemeral ---------------------------
(* Small instances of ZkEphemeral for TLC. *)
EXTENDS ZkEphemeral, TLC

CONSTANTS p1, p2, v1, v2

\* No value has a NUL in it; or v2 has one, and v1 is what comes before it.
NoNul == [v \in Values |-> v]
NulInV2 == [v \in Values |-> v1]

DataOnly == {"Data"}
AllFields == {"Data", "Acl"}

OneOpLists ==
  UNION {{<< CreateOp(p, [f \in Fields |-> v]) >>, << SetOp(p, "Data", v) >>,
          << DeleteOp(p) >>} : p \in Nodes, v \in Values}

TwoOpLists ==
  UNION {{<< CreateOp(p, i), CreateOp(q, i) >>, << DeleteOp(p), DeleteOp(q) >>} :
           p \in {p1}, q \in {p2}, i \in Info}

NodesAndValues == Permutations({p1, p2}) \union Permutations({v1, v2})

=============================================================================
