---------------------------- MODULE RustServices ----------------------------
(***************************************************************************)
(* The services of rust-core, checked in one run: those that keep state,   *)
(* the Markdown parser and the formulas of databases.                      *)
(***************************************************************************)
EXTENDS StatefulServices, MarkdownBlocks, Formula

serviceVars == <<statefulVars, document, expr>>

ServicesInit ==
    /\ StatefulInit /\ MarkdownInit /\ FormulaInit
    /\ part \in {"peers", "git", "graph", "plugins", "markdown", "formula"}
    /\ part = "formula" \/ expr = CHOOSE e \in Leaves : TRUE

ServicesNext ==
    \/ StatefulNext /\ UNCHANGED <<document, expr>>
    \/ part = "markdown" /\ MarkdownNext /\ UNCHANGED <<statefulVars, expr>>
    \/ part = "formula" /\ FormulaNext /\ UNCHANGED <<statefulVars, document>>

ServicesSpec == ServicesInit /\ [][ServicesNext]_serviceVars /\ PeersFairness

-----------------------------------------------------------------------------
\* Formulas group as written, use every token, keep the laws of logic and show
\* their errors.
FormulasFaithful ==
    part = "formula" => ParsesAsWritten /\ NoTokenIgnored /\ DeMorgan /\ ErrorsSurface
=============================================================================
