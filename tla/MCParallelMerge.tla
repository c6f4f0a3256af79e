-------------------------- MODULE MCParallelMerge ---------------------------
\* Three sub-agents: one may yield twice, so that it goes on while another is
\* served; two may yield once and still wait, fail or be cancelled on the way.
EXTENDS ParallelMerge

MCMaxEvents == <<1, 2, 1>>
=============================================================================
