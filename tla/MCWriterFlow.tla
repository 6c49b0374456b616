---------------------------- MODULE MCWriterFlow -----------------------------
(***************************************************************************)
(* One browser tab on each of the writer's pages, and two on the page that *)
(* keeps a checkpoint, for TLC.                                            *)
(***************************************************************************)
EXTENDS WriterFlow, TLC

CONSTANTS t1, t2

MCTabs == {t1, t2}

OneTab(pages) ==
    {[page |-> (t1 :> p) @@ (t2 :> "none"), free |-> f] : p \in pages, f \in 0..Need}

\* Both tabs are to create, so the vault is funded.
TwoTabs == {[page |-> [t \in MCTabs |-> "write"], free |-> Need]}

WritePage == OneTab({"write"})
AllPages == OneTab({"write", "vault", "pairs"}) \cup TwoTabs
=============================================================================
