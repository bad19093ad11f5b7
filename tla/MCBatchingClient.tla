-------------------------- MODULE MCBatchingClient --------------------------
(* Instances of BatchingClient for TLC.                                    *)
EXTENDS BatchingClient, TLC

MCRegisters == {1}
MCCoils == 1..4

MCBatch(t, writes, forced) == [table |-> t, writes |-> writes, forced |-> forced]

\* Coil 2 is a gap between 1 and 3.  After the batch that sets all four coils,
\* the one that clears 1 and 4 costs two transactions when 2 and 3 are left out.
MCBatches ==
    {MCBatch("registers", 1 :> 1, {})}
        \cup {MCBatch("coils", (1 :> 1) @@ (3 :> 1), {}),
              MCBatch("coils", [a \in 1..4 |-> 1], {}),
              MCBatch("coils", [a \in 1..4 |-> IF a \in {2, 3} THEN 1 ELSE 0], {4})}
MCRawWrites ==
    {[table |-> t, address |-> 1, value |-> 1] : t \in Tables}

\* One table is enough for the runs that end in a violation.
MCNoCoils == {}
MCTwoRegisters == {1, 2}
MCRegisterBatches ==
    {MCBatch("registers", a :> v, {}) : a \in {1, 2}, v \in {0, 1}}
MCRegisterWrites == {[table |-> "registers", address |-> 1, value |-> 1]}
=============================================================================
