----------------------------- MODULE MCExchange -----------------------------
(* Instances of Exchange for TLC. select1 and select2 permute one candidate
   set; the bundle accepts verify1 and rejects verify2. A result stands for a
   member the bundle fixes to a value (win), one it fixes to null (until) in a
   verification, and the authority state (state) in a selection. *)
EXTENDS Exchange

CONSTANTS select1, select2, verify1, verify2, win, until, state, extra, v, w, e, f

Says(status, result, symbol) == [status |-> status, result |-> result,
                                 error |-> symbol, separator |-> FALSE]
Record(a) == [m \in {win, until} |-> IF m = win THEN a ELSE Null]
Selection(a, b) == [m \in {win, state} |-> IF m = win THEN a ELSE b]
Right == Says("accepted", Record(v), Null)
Wrong == Says("accepted", Record(w), Null)
Selects(a, b) == Says("accepted", Selection(a, b), Null)
\* The winner without the authority state, right and wrong.
Short(a) == Says("accepted", [m \in {win} |-> a], Null)
Reject(symbol) == Says("rejected", <<>>, symbol)
Failed == Says("error", <<>>, Null)
\* A right answer that holds U+2028 in a text, and one with a member more.
Separated == [Right EXCEPT !.separator = TRUE]
Padded == Says("accepted", [m \in {win, until, extra} |-> IF m = win THEN v ELSE Null], Null)

Batch == <<select1, verify1, select2, verify2>>
Wanted == [c \in Case |->
             IF c = verify2 THEN [outcome |-> "rejected", members |-> <<>>, error |-> e]
             ELSE [outcome |-> "accepted", error |-> Null,
                   members |-> IF c \in VerifyCase THEN Record(v) ELSE Selection(v, v)]]

Usual == [i \in Id |-> CASE i = select1 -> {Selects(v, v), Short(w)}
                          [] i = select2 -> {Selects(v, w), Short(v), Failed}
                          [] i = verify1 -> {Right, Wrong}
                          [] i = verify2 -> {Reject(e), Reject(f), Right}
                          [] i = Foreign -> {Failed}]

\* A group of one and a verification, for what the documents say.
ShortBatch == <<select1, verify1>>
Unusual == [i \in Id |-> CASE i = verify1 -> {Right, Separated, Padded}
                            [] i = select1 -> {Selects(v, v)}
                            [] i = Foreign -> {Failed}]
=============================================================================
