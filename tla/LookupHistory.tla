---------------------------- MODULE LookupHistory ----------------------------
(***************************************************************************)
(* Engine.Lookup of pkg/core/engine/engine.go: the formulas a lookup       *)
(* service answers with are turned into outputs with their history.        *)
(* GetUTXOHistory and collectChildHistories walk from an output to the     *)
(* outputs it consumed, depth first; here the recursion is a stack of      *)
(* frames, and every storage call is a step of its own, so that outputs    *)
(* are admitted, deleted and relinked in between.                          *)
(*                                                                         *)
(* The history stitched into a BEEF is a tree of transactions; it is       *)
(* represented by its paths, sequences of outpoints that start at the      *)
(* output of the formula.  The position of an outpoint on a path is its    *)
(* depth plus one.  What the BEEF of an unmined transaction carries for    *)
(* its own validity is not part of the paths.  MongoDB is the storage: an  *)
(* output document for each topic, and the consumption edges in a          *)
(* collection of their own, which may lack any of the edges.               *)
(***************************************************************************)
EXTENDS Naturals, Sequences, FiniteSets, SequencesExt

CONSTANTS
    Outpoints,
    Topics,
    Source,      \* Source[t][o]: the outpoints o's transaction consumed in topic t
    NoBeef,      \* outpoints whose transaction has no stored BEEF
    Mined,       \* outpoints whose stored BEEF may have a Merkle path of the transaction
    Selected,    \* <<outpoint, depth>> for which the history selector says true
    Formulas,    \* the formulas of the answer: [outpoint, selector]
    MaxEdits,    \* bound on admissions and deletions during the lookup
    MaxErrors    \* bound on failing storage calls

Docs == Topics \X Outpoints

LookupAssumption ==
    /\ Source \in [Topics -> [Outpoints -> SUBSET Outpoints]]
    /\ NoBeef \subseteq Outpoints
    /\ Mined \subseteq Outpoints
    /\ Selected \subseteq Outpoints \X Nat
    /\ Formulas \in Seq([outpoint : Outpoints, selector : BOOLEAN])
    /\ {MaxEdits, MaxErrors} \subseteq Nat

VARIABLES
    stored,     \* output documents: <<topic, outpoint>>
    edges,      \* edge documents: <<topic, source, consumer>>
    status,     \* "ask", "run", "answer", "error", "panic", "other"
    formula,    \* index of the formula that is hydrated
    stack,      \* frames of GetUTXOHistory, the innermost last
    answers,    \* hydratedOutputs: [formula, paths]
    always,     \* history variable: documents stored since the lookup began
    ever,       \* history variable: documents stored at some time since then
    linked,     \* history variable: edges present since the lookup began
    counted     \* counters against the bounds

lookupVars == <<stored, edges, status, formula, stack, answers, always, ever, linked, counted>>

\* The edges that an admission of the documents writes.
EdgesOf(docs) ==
    {e \in Topics \X Outpoints \X Outpoints :
        <<e[1], e[3]>> \in docs /\ e[2] \in Source[e[1]][e[3]]}

-----------------------------------------------------------------------------
(* Storage, used by other requests at the same time *)

LookupInit ==
    /\ stored \in SUBSET Docs
    /\ edges \in SUBSET EdgesOf(Docs)
    /\ status = "ask"
    /\ formula = 1
    /\ stack = <<>>
    /\ answers = <<>>
    /\ always = stored
    /\ ever = stored
    /\ linked = edges
    /\ counted = [change |-> 0, failure |-> 0]

\* InsertOutputs: the edges and the output are written in one transaction.
Admit(d) ==
    /\ status = "run"
    /\ counted.change < MaxEdits
    /\ d \notin stored
    /\ stored' = stored \cup {d}
    /\ edges' = edges \cup EdgesOf({d})
    /\ ever' = ever \cup {d}
    /\ counted' = [counted EXCEPT !.change = @ + 1]
    /\ UNCHANGED <<status, formula, stack, answers, always, linked>>

\* DeleteOutput.
Delete(d) ==
    /\ status = "run"
    /\ counted.change < MaxEdits
    /\ d \in stored
    /\ stored' = stored \ {d}
    /\ always' = always \ {d}
    /\ counted' = [counted EXCEPT !.change = @ + 1]
    /\ UNCHANGED <<edges, status, formula, stack, answers, ever, linked>>

\* The outputs whose transactions spend o.
Consumers(t, o) == {c \in Outpoints : o \in Source[t][c]}

\* UpdateConsumedBy replaces the consumers of an output.  Submit appends to the list
\* it read and deleteUTXODeep leaves an output out of it, one that is kept too; both
\* lists are as old as their read, so they may have any of the consumers.
UpdateConsumedBy(t, o, consumers) ==
    /\ status = "run"
    /\ counted.change < MaxEdits
    /\ edges' = {e \in edges : <<e[1], e[2]>> # <<t, o>>} \cup {<<t, o, c>> : c \in consumers}
    /\ linked' = linked \cap edges'
    /\ counted' = [counted EXCEPT !.change = @ + 1]
    /\ UNCHANGED <<stored, status, formula, stack, answers, always, ever>>

-----------------------------------------------------------------------------
(* Lookup *)

\* A free-form or output-list answer is passed on unchanged, and an unknown
\* service or a failing one ends the call.
LookupOther ==
    /\ status = "ask"
    /\ status' \in {"other", "error"}
    /\ UNCHANGED <<stored, edges, formula, stack, answers, always, ever, linked, counted>>

\* The service answers with formulas.
LookupFormulas ==
    /\ status = "ask"
    /\ status' = "run"
    /\ UNCHANGED <<stored, edges, formula, stack, answers, always, ever, linked, counted>>

Top == Last(stack)
SetTop(frame) == [stack EXCEPT ![Len(stack)] = frame]

\* The documents FindOutput may return: no topic is asked for.
Found(o) == {d \in stored : d[2] = o}

\* historySelector(beef, outputIndex, currentDepth)
historySelector(o, depth) == <<o, depth>> \in Selected

\* The frame of GetUTXOHistory after its document was read.
Frame(d) ==
    [doc |-> d, read |-> FALSE, left |-> {}, spends |-> FALSE, mined |-> FALSE,
     missing |-> FALSE, paths |-> {}]

\* hydrateOneFormula finds the output and calls GetUTXOHistory at depth 0.
FindRoot(d) ==
    /\ status = "run"
    /\ formula <= Len(Formulas)
    /\ stack = <<>>
    /\ d \in Found(Formulas[formula].outpoint)
    /\ d[2] \notin NoBeef
    /\ Formulas[formula].selector
    /\ historySelector(d[2], 0)
    /\ stack' = <<Frame(d)>>
    /\ UNCHANGED <<stored, edges, status, formula, answers, always, ever, linked, counted>>

\* Without a selector the output is the answer.
AnswerAsIs ==
    /\ status = "run"
    /\ formula <= Len(Formulas)
    /\ LET f == Formulas[formula]
       IN /\ ~f.selector
          /\ Found(f.outpoint) # {}
          /\ f.outpoint \notin NoBeef
          /\ answers' = Append(answers, [formula |-> formula, paths |-> {<<f.outpoint>>}])
    /\ formula' = formula + 1
    /\ UNCHANGED <<stored, edges, status, stack, always, ever, linked, counted>>

\* A missing output, one without BEEF and one that is not selected are left out.
SkipFormula ==
    /\ status = "run"
    /\ formula <= Len(Formulas)
    /\ stack = <<>>
    /\ LET f == Formulas[formula]
       IN \/ Found(f.outpoint) = {}
          \/ f.outpoint \in NoBeef
          \/ f.selector /\ ~historySelector(f.outpoint, 0)
    /\ formula' = formula + 1
    /\ UNCHANGED <<stored, edges, status, stack, answers, always, ever, linked, counted>>

\* outputFromDocument reads the edges after the document, and then the BEEF, with the
\* Merkle path or still without it.
ReadEdges(mined) ==
    /\ stack # <<>>
    /\ ~Top.read
    /\ mined => Top.doc[2] \in Mined
    /\ LET consumed == {o \in Outpoints : <<Top.doc[1], o, Top.doc[2]>> \in edges}
       IN stack' = SetTop([Top EXCEPT
                    !.read = TRUE,
                    !.left = consumed,
                    !.spends = consumed # {},
                    !.mined = mined])
    /\ UNCHANGED <<stored, edges, status, formula, answers, always, ever, linked, counted>>

\* The depth of the child is the number of frames above it.
Depth == Len(stack)

\* collectChildHistories finds a consumed output and descends.
FindChild(o, d) ==
    /\ stack # <<>>
    /\ Top.read
    /\ o \in Top.left
    /\ d \in Found(o)
    /\ historySelector(o, Depth)
    /\ stack' = Append(SetTop([Top EXCEPT !.left = @ \ {o}]), Frame(d))
    /\ UNCHANGED <<stored, edges, status, formula, answers, always, ever, linked, counted>>

\* A missing child ends the loop over the consumed outputs.
SkipChildren(o) ==
    /\ stack # <<>>
    /\ Top.read
    /\ o \in Top.left
    /\ Found(o) = {} \/ ~historySelector(o, Depth)
    /\ stack' = SetTop([Top EXCEPT !.left = {}])
    /\ UNCHANGED <<stored, edges, status, formula, answers, always, ever, linked, counted>>

\* A consumed output that is gone or not selected is left out.
SkipChild(o) ==
    /\ stack # <<>>
    /\ Top.read
    /\ o \in Top.left
    /\ Found(o) = {} \/ ~historySelector(o, Depth)
    /\ stack' = SetTop([Top EXCEPT !.left = @ \ {o}])
    /\ UNCHANGED <<stored, edges, status, formula, answers, always, ever, linked, counted>>

\* The paths of a frame: its own output, then those of the stitched children, unless
\* its transaction has a Merkle path, where tx.BEEF() stops.
Paths(frame) ==
    {<<frame.doc[2]>>}
    \cup {<<frame.doc[2]>> \o p : p \in IF frame.mined THEN {} ELSE frame.paths}

\* The loop over the consumed outputs is over.
Collected == stack # <<>> /\ Top.read /\ Top.left = {}

\* The child is handed to the parent, which stitches it into its transaction once all
\* children are there.  One that has neither BEEF nor consumed outputs comes as it is.
ReturnChild ==
    /\ Len(stack) > 1
    /\ Collected
    /\ Top.doc[2] \in NoBeef => ~Top.spends
    /\ ~Top.missing
    /\ LET parent == stack[Len(stack) - 1]
           handed == IF Top.doc[2] \in NoBeef
                     THEN [parent EXCEPT !.missing = TRUE]
                     ELSE [parent EXCEPT !.paths = @ \cup Paths(Top)]
       IN stack' = [Front(stack) EXCEPT ![Len(stack) - 1] = handed]
    /\ UNCHANGED <<stored, edges, status, formula, answers, always, ever, linked, counted>>

\* A child that came without BEEF cannot be stitched: ErrMissingBeef fails the lookup.
MissingBeef ==
    /\ Collected
    /\ Top.missing
    /\ Top.doc[2] \notin NoBeef
    /\ status' = "error"
    /\ stack' = <<>>
    /\ answers' = <<>>
    /\ UNCHANGED <<stored, edges, formula, always, ever, linked, counted>>

\* The transaction of an output with consumed outputs is looked up in its BEEF, which
\* is nil: the call panics.
NilBeef ==
    /\ Collected
    /\ Top.spends
    /\ Top.doc[2] \in NoBeef
    /\ status' = "panic"
    /\ stack' = <<>>
    /\ answers' = <<>>
    /\ UNCHANGED <<stored, edges, formula, always, ever, linked, counted>>

\* hydrateFormulas appends the output of one formula and takes the next.
AppendAnswer ==
    /\ Len(stack) = 1
    /\ Collected
    /\ ~Top.missing
    /\ answers' = Append(answers, [formula |-> formula, paths |-> Paths(Top)])
    /\ formula' = formula + 1
    /\ stack' = <<>>
    /\ UNCHANGED <<stored, edges, status, always, ever, linked, counted>>

\* FindOutput, LoadAncillaryBeef or the serialization fails: no answer at all.
LookupFails ==
    /\ status = "run"
    /\ counted.failure < MaxErrors
    /\ counted' = [counted EXCEPT !.failure = @ + 1]
    /\ status' = "error"
    /\ stack' = <<>>
    /\ answers' = <<>>
    /\ UNCHANGED <<stored, edges, formula, always, ever, linked>>

Answer ==
    /\ status = "run"
    /\ formula > Len(Formulas)
    /\ status' = "answer"
    /\ UNCHANGED <<stored, edges, formula, stack, answers, always, ever, linked, counted>>

-----------------------------------------------------------------------------
LookupStep ==
    \/ \E d \in Docs : FindRoot(d)
    \/ AnswerAsIs
    \/ SkipFormula
    \/ \E mined \in BOOLEAN : ReadEdges(mined)
    \/ \E o \in Outpoints, d \in Docs : FindChild(o, d)
    \/ \E o \in Outpoints : SkipChild(o)
    \/ ReturnChild
    \/ MissingBeef
    \/ NilBeef
    \/ AppendAnswer
    \/ Answer

LookupNext ==
    \/ \E d \in Docs : Admit(d) \/ Delete(d)
    \/ \E t \in Topics, o \in Outpoints : \E consumers \in SUBSET Consumers(t, o) :
          UpdateConsumedBy(t, o, consumers)
    \/ LookupOther
    \/ LookupFormulas
    \/ LookupFails
    \/ LookupStep

LookupSpec == LookupInit /\ [][LookupNext]_lookupVars

-----------------------------------------------------------------------------
LookupTypeOK ==
    /\ stored \subseteq Docs
    /\ edges \subseteq Topics \X Outpoints \X Outpoints
    /\ status \in {"ask", "run", "answer", "error", "panic", "other"}
    /\ formula \in 1 .. Len(Formulas) + 1
    /\ \A i \in DOMAIN stack :
          /\ stack[i].doc \in Docs
          /\ stack[i].left \subseteq Outpoints
    /\ \A i \in DOMAIN answers : answers[i].formula \in 1 .. Len(Formulas)
    /\ status # "run" => stack = <<>>
    /\ always \subseteq stored
    /\ stored \subseteq ever
    /\ linked \subseteq edges

-----------------------------------------------------------------------------
\* Every sequence of outpoints from o on that can be selected to its end.
PathsFrom(o) ==
    {p \in UNION {[1 .. s[2] + 1 -> Outpoints] : s \in Selected} : p[1] = o}

\* Every outpoint of the path is selected at its depth.
Chosen(p) == \A i \in DOMAIN p : <<p[i], i - 1>> \in Selected

(***************************************************************************)
(* GetUTXOHistory returns nothing but history: each path of an answer goes *)
(* from an output to one it consumed in a topic that held it while the     *)
(* lookup ran, and every output on it was selected at its real depth,      *)
(* whatever was admitted, deleted or relinked during the walk.             *)
(***************************************************************************)
HistoryIsReal ==
    \A a \in Range(answers) : Formulas[a.formula].selector =>
        \A p \in a.paths :
            /\ p[1] = Formulas[a.formula].outpoint
            /\ Chosen(p)
            /\ \A i \in DOMAIN p : \E t \in Topics :
                  /\ <<t, p[i]>> \in ever
                  /\ i < Len(p) => p[i + 1] \in Source[t][p[i]]

(***************************************************************************)
(* GetUTXOHistory leaves nothing out that storage held: a selected path is *)
(* part of the answer when no document of its outputs comes or goes during *)
(* the lookup, each topic that holds an output keeps the edge to the next  *)
(* one, and no transaction before the last has a Merkle path; although     *)
(* other outputs and edges disappear while the walk passes them.           *)
(***************************************************************************)
HistoryIsComplete ==
    status = "answer" =>
        \A f \in DOMAIN Formulas : Formulas[f].selector =>
            \A p \in PathsFrom(Formulas[f].outpoint) :
                /\ Chosen(p)
                /\ \A i \in DOMAIN p :
                      /\ p[i] \notin NoBeef
                      /\ {d \in ever : d[2] = p[i]} \subseteq always
                      /\ \E d \in always : d[2] = p[i]
                      /\ i < Len(p) =>
                            /\ p[i] \notin Mined
                            /\ \A t \in Topics :
                                  <<t, p[i]>> \in ever => <<t, p[i + 1], p[i]>> \in linked
                => \E a \in Range(answers) : a.formula = f /\ p \in a.paths

(***************************************************************************)
(* hydrateFormulas answers in the order of the formulas and answers each   *)
(* one at most once; a lookup that fails or panics half way answers        *)
(* nothing.                                                                *)
(***************************************************************************)
AnswersInOrder ==
    /\ \A i, j \in DOMAIN answers : i < j => answers[i].formula < answers[j].formula
    /\ status \in {"error", "panic"} => answers = <<>>

\* Lookup answers with histories that are real, complete as far as documents and edges
\* stayed, one per formula and in their order, or fails and answers nothing.
HistoryIsExact == LookupTypeOK /\ HistoryIsReal /\ HistoryIsComplete /\ AnswersInOrder

=============================================================================
