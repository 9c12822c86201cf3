----------------------------- MODULE MCQemuEdu -----------------------------
(***************************************************************************)
(* Values for QemuEdu's constants that a cfg cannot write.                 *)
(***************************************************************************)
EXTENDS QemuEdu, TLC

\* A mask that asks the handler to complete everything, and the refused zero.
MCMasks == {{}, {"factorial", "dma"}}

Choice(factorial, dmaTimeout, mode) ==
    [force_factorial_timeout |-> factorial, force_dma_timeout |-> dmaTimeout,
     interrupt_mode |-> mode]

\* What the tests load the module with: its defaults; a DMA timeout forced under
\* the strict MSI policy; INTx; a policy that does not exist.
Default      == Choice(FALSE, FALSE, "auto")
Normal       == {Default}
NoCompletion == {Choice(FALSE, TRUE, "auto")}
Policies     == {Choice(FALSE, TRUE, "msi"), Choice(FALSE, FALSE, "intx"),
                 Choice(FALSE, FALSE, "invalid"), Default}

Interchangeable == Permutations(Tasks)
=============================================================================
