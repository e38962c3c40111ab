---------------------------- MODULE MetadataTable ----------------------------
(***************************************************************************)
(* L2Metadata (memory/l2_metadata.py): the `memories` table as a value.    *)
(* Each operator is one method, that is one transaction under the          *)
(* connection lock (_txn), committed to disk when it returns.              *)
(*                                                                         *)
(*   label  memory id -> its hnsw_label, NoLabel when there is no row      *)
(*   size   memory id -> what its row is charged: LENGTH(text) plus the    *)
(*          overhead; 0 when there is no row                               *)
(*   cold   the ids that have a row, ORDER BY last_touch ASC               *)
(*                                                                         *)
(* Callers stamp last_touch with the current time just before they write,  *)
(* so a written or touched row becomes the freshest.                       *)
(***************************************************************************)
EXTENDS ByteBudget

CONSTANTS
    MaxLabel,   \* bound on the labels
    NoLabel     \* "no row"

Labels == 0..MaxLabel

NoRows == [label |-> [id \in Ids |-> NoLabel],
           size  |-> [id \in Ids |-> 0],
           cold  |-> <<>>]

Rows(t) == {id \in Ids : t.label[id] # NoLabel}

\* get_by_label: the ids whose row carries label l (hnsw_label is UNIQUE).
ByLabel(t, l) == {id \in Ids : t.label[id] = l}

\* INSERT violates PRIMARY KEY (memory_id) or UNIQUE (hnsw_label).
CanInsertRow(t, id, l) == id \notin Rows(t) /\ ByLabel(t, l) = {}

InsertRow(t, id, l, n) ==
    [label |-> [t.label EXCEPT ![id] = l],
     size  |-> [t.size EXCEPT ![id] = n],
     cold  |-> Append(t.cold, id)]

\* delete
DeleteRowKeepingAge(t, id) ==
    [label |-> [t.label EXCEPT ![id] = NoLabel],
     size  |-> [t.size EXCEPT ![id] = 0],
     cold  |-> t.cold]
DeleteRow(t, id) ==
    [label |-> [t.label EXCEPT ![id] = NoLabel],
     size  |-> [t.size EXCEPT ![id] = 0],
     cold  |-> Without(t.cold, id)]

\* upsert: INSERT OR REPLACE also deletes another row that carries the label.
ReplaceRow(t, id, l, n) ==
    LET replaced == {x \in Ids : x # id /\ t.label[x] = l} IN
    [label |-> [x \in Ids |-> IF x = id THEN l
                              ELSE IF x \in replaced THEN NoLabel ELSE t.label[x]],
     size  |-> [x \in Ids |-> IF x = id THEN n
                              ELSE IF x \in replaced THEN 0 ELSE t.size[x]],
     cold  |-> Append(Among(t.cold, {x \in Ids : x # id /\ x \notin replaced}), id)]

\* touch
TouchRow(t, id) ==
    IF id \in Rows(t) THEN [t EXCEPT !.cold = Append(Without(@, id), id)] ELSE t

\* find_cold, with a cut-off in the far future: its first row.
Coldest(t) == Head(t.cold)

\* SELECT MAX(hnsw_label): one past it is where label assignment resumes.
LabelAfterLast(t) ==
    IF Rows(t) = {} THEN 0
    ELSE 1 + CHOOSE l \in {t.label[id] : id \in Rows(t)} :
                 \A id \in Rows(t) : t.label[id] <= l
=============================================================================
