--------------------------- MODULE CustomAgentBooks ---------------------------
(***************************************************************************)
(* The books of one custom agent (services/custom-agent-service.ts): fills *)
(* raise its spent allowance, settlements its result, look-ups replace the *)
(* copy in memory with the row as it was read, and edits write every       *)
(* column back.                                                            *)
(*                                                                         *)
(* Spend and result are counted in fills and settlements.  The database is *)
(* external: it answers late, loses writes and takes concurrent ones in    *)
(* any order.                                                              *)
(***************************************************************************)
EXTENDS Integers, FiniteSets

CONSTANTS
    Calls,      \* look-ups, edits and cold fills and settlements (bounded)
    MaxFills,   \* bound on fills
    MaxSettles  \* bound on settlements

VARIABLES
    memory,     \* inMemoryAgents: the agent's books, or None
    row,        \* custom_agents: spent_allowance and pnl
    writes,     \* updates on their way: what wrote them and what they set, Keep for nothing
    call,       \* per call: kind, stage, and the image it was answered with
    truth,      \* history: fills and settlements that took place
    overlapped  \* history: a read, or a write of the same column, met another write

bookVars == <<memory, row, writes, call, truth, overlapped>>

Keep == -1
None == [spent |-> Keep, pnl |-> Keep]
Books == [spent : 0..MaxFills, pnl : 0..MaxSettles]
Kinds == {"look-up", "edit", "fill", "settlement"}
At(kind, stage, image) == [kind |-> kind, stage |-> stage, image |-> image]

TypeOK ==
    /\ memory \in Books \cup {None}
    /\ row \in Books
    /\ writes \subseteq [by : {"fill", "settlement", "edit"},
                         set : [spent : Keep..MaxFills, pnl : Keep..MaxSettles]]
    /\ call \in [Calls -> [kind : Kinds, stage : {"idle", "asked", "answered", "ended"},
                           image : Books \cup {None}]]
    /\ truth \in Books
    /\ overlapped \in BOOLEAN

-----------------------------------------------------------------------------
Init ==
    /\ row = [spent |-> 0, pnl |-> 0]
    /\ memory \in {None, row}
    /\ writes = {}
    /\ call = [c \in Calls |-> At("look-up", "idle", None)]
    /\ truth = row
    /\ overlapped = FALSE

Open == {c \in Calls : call[c].stage \in {"asked", "answered"}}
Column(kind) == IF kind = "fill" THEN "spent" ELSE "pnl"
Raised(books, column) == [books EXCEPT ![column] = @ + 1]

(* A mutation: a fill or a settlement writes the whole row.                *)
UpdateAll(books, column) == books

(* The columns a fill or a settlement writes.                              *)
Update(books, column) == [None EXCEPT ![column] = books[column]]

(* supabase.update(): sent, and not waited for by anybody else.            *)
Write(kind, columns, others) ==
    /\ writes' = writes \cup {[by |-> kind, set |-> columns]}
    /\ overlapped' = (\/ overlapped
                      \/ others # {}
                      \/ \E w \in writes : w.by = kind \/ "edit" \in {kind, w.by})

(* recordTradeFill and recordTradeSettlement with the agent's books at     *)
(* hand: counted in memory and written, one column each.                   *)
Record(books, kind, others) ==
    LET counted == Raised(books, Column(kind)) IN
    /\ memory' = counted
    /\ Write(kind, Update(counted, Column(kind)), others)

(* A fill or a settlement takes place: it is recorded at once if the agent *)
(* is in memory, and after a look-up otherwise.                            *)
TakesPlace(c, kind, bound) ==
    /\ truth[Column(kind)] < bound
    /\ truth' = Raised(truth, Column(kind))
    /\ IF memory # None
       THEN Record(memory, kind, Open) /\ UNCHANGED call
       ELSE /\ call[c].stage = "idle"
            /\ call' = [call EXCEPT ![c] = At(kind, "asked", None)]
            /\ overlapped' = (overlapped \/ Open # {} \/ writes # {})
            /\ UNCHANGED <<memory, writes>>
    /\ UNCHANGED row

RecordTradeFill(c) == TakesPlace(c, "fill", MaxFills)
RecordTradeSettlement(c) == TakesPlace(c, "settlement", MaxSettles)

(* getCustomAgentById, getCustomAgents and the other look-ups, and the one *)
(* that begins updateCustomAgent.                                          *)
Ask(c, kind) ==
    /\ call[c].stage = "idle"
    /\ call' = [call EXCEPT ![c] = At(kind, "asked", None)]
    /\ overlapped' = (overlapped \/ writes # {})
    /\ UNCHANGED <<memory, row, writes, truth>>

(* The database answers with the row, or with an error.                    *)
DbAnswers(c) ==
    /\ call[c].stage = "asked"
    /\ \E image \in {row, None} : call' = [call EXCEPT ![c] = At(@.kind, "answered", image)]
    /\ overlapped' = (overlapped \/ writes # {})
    /\ UNCHANGED <<memory, row, writes, truth>>

(* The caller goes on with the image, which replaces the copy in memory,   *)
(* or with that copy; without either it gives up.                          *)
GoOn(c) ==
    LET kind == call[c].kind
        books == IF call[c].image # None THEN call[c].image ELSE memory
    IN
    /\ call[c].stage = "answered"
    /\ call' = [call EXCEPT ![c] = At(kind, "ended", None)]
    /\ \/ /\ kind = "look-up" \/ books = None
          /\ memory' = books
          /\ overlapped' = (overlapped \/ kind \in {"fill", "settlement"})
          /\ UNCHANGED writes
       \/ books # None /\ kind \in {"fill", "settlement"} /\ Record(books, kind, Open \ {c})
       \/ books # None /\ kind = "edit" /\ memory' = books /\ Write(kind, books, Open \ {c})
    /\ UNCHANGED <<row, truth>>

(* A write lands or is lost.                                               *)
Land(w) ==
    /\ writes' = writes \ {w}
    /\ \/ /\ row' = [c \in {"spent", "pnl"} |-> IF w.set[c] = Keep THEN row[c]
                                             ELSE w.set[c]]
          /\ UNCHANGED overlapped
       \/ UNCHANGED row /\ overlapped' = TRUE
    /\ UNCHANGED <<memory, call, truth>>

Next ==
    \/ \E c \in Calls : \/ RecordTradeFill(c) \/ RecordTradeSettlement(c)
                        \/ Ask(c, "look-up") \/ Ask(c, "edit")
                        \/ DbAnswers(c) \/ GoOn(c)
    \/ \E w \in writes : Land(w)

Spec == Init /\ [][Next]_bookVars
-----------------------------------------------------------------------------
(* Properties                                                              *)

Pending(kind) == Cardinality({c \in Open : call[c].kind = kind})

(* Fills and settlements of one agent may overlap each other, but nothing  *)
(* else: as long as no look-up or edit meets a write, no two fills and no  *)
(* two settlements are written at once and no write is lost, the books in  *)
(* memory hold all of them, and so does the row when all is written.       *)
ExactUnlessOverlapped ==
    ~overlapped =>
        LET recorded == [spent |-> truth.spent - Pending("fill"),
                         pnl |-> truth.pnl - Pending("settlement")]
        IN  /\ memory # None => memory = recorded
            /\ writes = {} => row = recorded

(* "Check DB first for freshest persisted state"                           *)
(* (custom-agent-service.ts:616): after everything was written, the row    *)
(* knows of every fill.                                                    *)
NoFillForgotten == Open = {} /\ writes = {} => row.spent = truth.spent
=============================================================================
