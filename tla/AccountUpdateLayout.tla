------------------------ MODULE AccountUpdateLayout -------------------------
(***************************************************************************)
(* AccountUpdateLayout of lib/mina/v1/account-update.ts: how the code of a *)
(* transaction or a contract method arranges account updates in a forest,  *)
(* by moving them about, by taking trees out of it as values and by        *)
(* putting such values back, until finalizeChildren commits to the result. *)
(*                                                                         *)
(* Forests and the data of Merkle lists are objects that several places    *)
(* refer to, so both live on a heap.  A hash stands for what was hashed: a *)
(* sequence of pairs of an account update and the hash of its children.    *)
(***************************************************************************)
EXTENDS Folding, Selection, SequencesExt

CONSTANTS Updates,    \* the account updates the program creates
          Root,       \* the root of the layout, never part of the transaction
          MaxSteps,   \* bound on the operations before finalizeChildren
          MaxLevels   \* bound on the depth of the forests that are sent

ASSUME UpdatesAssumption ==
  IsFiniteSet(Updates) /\ Root \notin Updates /\ MaxSteps \in Nat /\ MaxLevels \in Nat

VARIABLES
  heap,     \* the objects of the layout and of the values made from it
  steps,    \* how many operations were made
  status,   \* of the transaction or method that builds the layout
  calls,    \* the forest of finalizeChildren: its hash and what it contains
  late,     \* history: a tree was changed after it had been put somewhere
  byValue   \* history: the updates that were put into a tree or forest as values

layoutVars == <<heap, steps, status, calls, late, byValue>>

(* heap.node    the map of the layout: [final, children, siblings, dummy]    *)
(* heap.forest  UnfinishedForest and AccountUpdateForest: a list while it is *)
(*              mutable, a hash and a cell of data when it is final          *)
(* heap.cell    the data of Merkle lists: [id, hash, cell] per element       *)
(* heap.tree    the AccountUpdateTree of an update: its children             *)
NoCell == 0
Mutable(list) == [final |-> FALSE, list |-> list, hash |-> <<>>, cell |-> NoCell]
Final(hash, cell) == [final |-> TRUE, list |-> <<>>, hash |-> hash, cell |-> cell]
EmptyMap == [u \in {} |-> 0]
With(f, u, v) == [w \in DOMAIN f \cup {u} |-> IF w = u THEN v ELSE f[w]]

EmptyHeap ==
  [node |-> [u \in {Root} |-> [final |-> FALSE, children |-> 1, siblings |-> 0, dummy |-> FALSE]],
   forest |-> <<Mutable(<<>>)>>, cell |-> <<>>, tree |-> EmptyMap]

LayoutInit ==
  /\ heap = EmptyHeap /\ steps = 0 /\ status = "building"
  /\ calls = [hash |-> <<>>, content |-> <<>>]
  /\ late = FALSE /\ byValue = {}

NewForest(h, f) == [h EXCEPT !.forest = Append(@, f)]
Data(h, c) == IF c = NoCell THEN <<>> ELSE h.cell[c]
HashOf(elements) == [k \in DOMAIN elements |-> <<elements[k].id, elements[k].hash>>]

\* What a Merkle list of trees contains, whatever its hash says.
Content(h, c) ==
  LET content[d \in 0..Len(h.cell)] ==
        [k \in DOMAIN Data(h, d) |-> <<Data(h, d)[k].id, content[Data(h, d)[k].cell]>>]
  IN  content[c]

\* The account updates in it, and in the order of toFlatArray.
IdsIn(h, c) ==
  LET ids[d \in 0..Len(h.cell)] == UNION {{e.id} \cup ids[e.cell] : e \in ToSet(Data(h, d))}
  IN  ids[c]
FlatData(h, c) ==
  LET flat[d \in 0..Len(h.cell)] ==
        Flattened([k \in DOMAIN Data(h, d) |->
                     <<Data(h, d)[k].id>> \o flat[Data(h, d)[k].cell]])
  IN  flat[c]

-----------------------------------------------------------------------------
(* UnfinishedForest *)

\* Mutant: pushIf hashes a dummy as well.
HashedAll(h, u) == TRUE
Hashed(h, u) == ~h.node[u].dummy

\* finalize of a forest whose nodes' children are final: one Merkle list of the
\* nodes that are no dummies.
FinalizeOne(h, f) ==
  LET list == h.forest[f].list
      Tree(u) == LET c == h.forest[h.node[u].children]
                 IN  [id |-> u, hash |-> c.hash, cell |-> c.cell]
      Trees(at) == LET kept == Selected(at, list)
                   IN  [k \in DOMAIN kept |-> Tree(kept[k])]
      data == Trees({k \in DOMAIN list : ~h.node[list[k]].dummy})
      hashed == Trees({k \in DOMAIN list : Hashed(h, list[k])})
  IN  IF h.forest[f].final THEN h
      ELSE [h EXCEPT !.cell = Append(@, data),
                     !.forest[f] = Final(HashOf(hashed), Len(h.cell) + 1)]

\* The forests below f, innermost first: in these and in f, finalize is called.
ForestsBelow(h, f) ==
  LET below[n \in 0..Cardinality(Updates)] ==
        [g \in DOMAIN h.forest |->
           IF n = 0 \/ h.forest[g].final THEN <<>>
           ELSE Flattened([k \in DOMAIN h.forest[g].list |->
                             LET c == h.node[h.forest[g].list[k]].children
                             IN  Append(below[n - 1][c], c)])]
  IN  below[Cardinality(Updates)][f]

Finalize(h, f) ==
  LET order == ForestsBelow(h, f)
      upTo[k \in 0..Len(order)] == IF k = 0 THEN h ELSE FinalizeOne(upTo[k - 1], order[k])
  IN  FinalizeOne(upTo[Len(order)], f)

\* Mutant: splice(index) without the count.
RestCut(list, u) == SubSeq(list, 1, SelectInSeq(list, LAMBDA v : v = u) - 1)
Rest(list, u) == Selected({k \in DOMAIN list : list[k] # u}, list)

\* disattach: the node leaves its siblings, which must be mutable if there are any
Siblings(h, u) == IF u \in DOMAIN h.node THEN h.node[u].siblings ELSE 0
CanDisattach(h, u) == Siblings(h, u) # 0 => ~h.forest[Siblings(h, u)].final
Disattach(h, u) ==
  IF Siblings(h, u) = 0 THEN h
  ELSE [h EXCEPT !.node[u].siblings = 0,
                 !.forest[h.node[u].siblings].list = Rest(@, u)]

\* push: nothing if the node is there already
IsThere(h, p, u) == h.node[u].siblings = h.node[p].children

CanPush(h, p, u) ==
  IsThere(h, p, u) \/ (h.node[u].siblings = 0 /\ ~h.forest[h.node[p].children].final)

\* Mutant: the node is pushed to its siblings once more.
PushAgain(h, p, u) ==
  [h EXCEPT !.node[u].siblings = h.node[p].children,
            !.forest[h.node[p].children].list = Append(@, u)]
Push(h, p, u) ==
  IF IsThere(h, p, u) THEN h
  ELSE [h EXCEPT !.node[u].siblings = h.node[p].children,
                 !.forest[h.node[p].children].list = Append(@, u)]

-----------------------------------------------------------------------------
(* getOrCreate: the node of an account update or of a tree, changed to that kind *)

Node(h, u, final, f) ==
  LET g == NewForest(h, f)
      old == IF u \in DOMAIN h.node THEN h.node[u] ELSE [siblings |-> 0, dummy |-> FALSE]
  IN  [g EXCEPT !.node = With(@, u, [final |-> final, children |-> Len(g.forest),
                                     siblings |-> old.siblings, dummy |-> old.dummy])]

\* An update takes the place of a tree with no children at all.
GetOrCreate(h, u) ==
  IF u \in DOMAIN h.node /\ ~h.node[u].final THEN h
  ELSE Node(h, u, FALSE, Mutable(<<>>))

\* A tree takes the place of an update with the hash it has now and the same data;
\* it does not take the place of a tree.
GetOrCreateTree(h, u) ==
  IF u \in DOMAIN h.node /\ h.node[u].final THEN h
  ELSE Node(h, u, TRUE, Final(h.forest[h.tree[u]].hash, h.forest[h.tree[u]].cell))

-----------------------------------------------------------------------------
(* The operations *)

\* Bounds: MaxSteps, and an update is put somewhere as a value only once.
Operation == status = "building" /\ steps < MaxSteps /\ steps' = steps + 1

\* The operation ends with the heap h, or throws and takes the method with it.
Ends(ok, h) ==
  /\ IF ok THEN heap' = h /\ UNCHANGED status
           ELSE heap' = EmptyHeap /\ status' = "threw"
  /\ UNCHANGED calls

\* pushTopLevel, without disattach
PushTopLevel(u) ==
  LET h == GetOrCreate(heap, u)
  IN  /\ Operation /\ UNCHANGED <<late, byValue>>
      /\ Ends(CanPush(h, Root, u), Push(h, Root, u))

\* approve(child)
Approve(p, u) ==
  LET h == GetOrCreate(GetOrCreate(Disattach(heap, u), p), u)
  IN  /\ Operation /\ UNCHANGED <<late, byValue>>
      /\ Ends(CanDisattach(heap, u) /\ CanPush(h, p, u), Push(h, p, u))

\* approve(optional child)
ApproveIf(p, u, isSome) ==
  LET h == GetOrCreate(GetOrCreate(Disattach(heap, u), p), u)
      g == [h EXCEPT !.node[u].dummy = ~isSome]
  IN  /\ Operation /\ UNCHANGED <<late, byValue>>
      /\ Ends(CanDisattach(heap, u) /\ CanPush(g, p, u), Push(g, p, u))

\* approve(tree)
ApproveTree(p, u) ==
  LET h == GetOrCreateTree(GetOrCreate(Disattach(heap, u), p), u)
  IN  /\ Operation /\ u \in DOMAIN heap.tree /\ UNCHANGED <<late, byValue>>
      /\ Ends(CanDisattach(heap, u) /\ CanPush(h, p, u), Push(h, p, u))

\* approve(toForest([tree])): setChildren, for a parent that has none
ApproveForest(p, u) ==
  LET h == GetOrCreate(heap, p)
      t == h.forest[h.tree[u]]
      e == <<[id |-> u, hash |-> t.hash, cell |-> t.cell]>>
      f == h.node[p].children
  IN  /\ Operation /\ u \in DOMAIN heap.tree \ byValue
      /\ byValue' = byValue \cup {u} /\ UNCHANGED late
      /\ Ends(h.forest[f].final \/ h.forest[f].list = <<>>,
              [h EXCEPT !.cell = Append(@, e), !.forest[f] = Final(HashOf(e), Len(h.cell) + 1)])

Unlink(u) ==
  /\ Operation /\ u \in DOMAIN heap.node /\ UNCHANGED <<late, byValue>>
  /\ Ends(CanDisattach(heap, u), Disattach(heap, u))

\* The updates below u.  Account updates may approve one another in a circle,
\* which the code does not prevent ...
Under(h, u) ==
  LET below[n \in 0..Cardinality(Updates)] ==
        [v \in DOMAIN h.node |->
           LET f == h.forest[h.node[v].children]
           IN  IF n = 0 THEN {}
               ELSE IF f.final THEN IdsIn(h, f.cell)
               ELSE UNION {{w} \cup below[n - 1][w] : w \in ToSet(f.list)}]
  IN  IF u \in DOMAIN h.node THEN below[Cardinality(Updates)][u] ELSE {}

InTree(h, u) == IF u \in DOMAIN h.tree THEN IdsIn(h, h.forest[h.tree[u]].cell) ELSE {}

\* extractTree: the subtree leaves the layout as a value.  In a circle finalize
\* has no end, which is a stack overflow.
Extract(u) ==
  LET h == IF u \in DOMAIN heap.node
           THEN Finalize(Disattach(heap, u), heap.node[u].children)
           ELSE [NewForest(heap, Final(<<>>, Len(heap.cell) + 1)) EXCEPT !.cell = Append(@, <<>>)]
      f == IF u \in DOMAIN heap.node THEN heap.node[u].children ELSE Len(h.forest)
  IN  /\ Operation /\ UNCHANGED <<late, byValue>>
      /\ Ends(CanDisattach(heap, u) /\ u \notin Under(Disattach(heap, u), u),
              [h EXCEPT !.tree = With(@, u, f)])

\* The tree of t, or its update with the children of the tree, is in the layout.
InLayout(t) == t \in DOMAIN heap.node /\ (heap.node[t].final \/ heap.node[t].siblings # 0)

\* tree.approve(update): the update goes in front of the tree's children, as a
\* value without children.
TreeApprove(t, u) ==
  LET h == Disattach(heap, u)
      f == h.tree[t]
      e == <<[id |-> u, hash |-> <<>>, cell |-> NoCell]>>
  IN  /\ Operation /\ t \in DOMAIN heap.tree /\ u \notin byValue \cup {t}
      /\ byValue' = byValue \cup {u}
      /\ late' = (late \/ t \in byValue \/ InLayout(t))
      /\ Ends(CanDisattach(heap, u),
              [h EXCEPT !.forest[f].hash = HashOf(e) \o @, !.cell[h.forest[f].cell] = e \o @])

\* Forests as values, up to a depth: sequences of pairs of an update and a forest.
ForestsUpTo[n \in 0..MaxLevels] == IF n = 0 THEN {<<>>} ELSE Seq(Updates \X ForestsUpTo[n - 1])
Forests == ForestsUpTo[MaxLevels]

\* finalizeChildren: the layout is not used again.  Bound: MaxLevels.
FinalizeChildren ==
  LET h == Finalize(heap, 1)
      sent == [hash |-> h.forest[1].hash, content |-> Content(h, h.forest[1].cell)]
  IN  /\ status = "building" /\ status' = "final"
      /\ {sent.hash, sent.content} \subseteq Forests /\ calls' = sent
      /\ heap' = EmptyHeap /\ steps' = 0 /\ UNCHANGED <<late, byValue>>

Operate(p, u) ==
  \/ p \in Updates /\ (Approve(p, u) \/ ApproveIf(p, u, TRUE) \/ ApproveIf(p, u, FALSE))
  \/ p \in Updates /\ (ApproveTree(p, u) \/ ApproveForest(p, u) \/ TreeApprove(p, u))
  \/ p = Root /\ (PushTopLevel(u) \/ Unlink(u) \/ Extract(u))

LayoutNext == FinalizeChildren \/ \E p \in Updates \cup {Root}, u \in Updates : Operate(p, u)

LayoutSpec == LayoutInit /\ [][LayoutNext]_layoutVars

-----------------------------------------------------------------------------
(* Properties *)

\* toFlatList of a forest that is sent, and of the layout as it stands.
Flat(content) ==
  LET flat[n \in 0..MaxLevels] ==
        [forest \in ForestsUpTo[n] |->
           Flattened([k \in DOMAIN forest |-> <<forest[k][1]>> \o flat[n - 1][forest[k][2]]])]
  IN  flat[MaxLevels][content]
FlatForest(h, f) ==
  LET flat[n \in 0..Cardinality(Updates) + 1] ==
        [g \in DOMAIN h.forest |->
           LET list == h.forest[g].list
           IN  IF n = 0 THEN <<>>
               ELSE IF h.forest[g].final THEN FlatData(h, h.forest[g].cell)
               ELSE Flattened([k \in DOMAIN list |->
                                 IF h.node[list[k]].dummy THEN <<>>
                                 ELSE <<list[k]>> \o flat[n - 1][h.node[list[k]].children]])]
  IN  flat[Cardinality(Updates) + 1][f]

\* What is sent is what the proof commits to: the hash of the forest is that of
\* the account updates in it, however trees were taken out and put back, as long
\* as no tree was changed after it had been put somewhere.  Then its data, which
\* is shared, has the change and the hash of the place does not.
CommitsToContent == ~late => calls.hash = calls.content

\* No account update is in the transaction twice, unless it was put into a tree
\* or a forest as a value, with what is below it: the layout does not find it
\* there when it is attached once more.
Copied(values, content) ==
  LET copied[n \in 0..MaxLevels] ==
        [forest \in ForestsUpTo[n] |->
           UNION {IF t[1] \in values THEN {t[1]} \cup ToSet(Flat(t[2])) ELSE copied[n - 1][t[2]]
                  : t \in ToSet(forest)}]
  IN  copied[MaxLevels][content]

OncePerTransaction ==
  LET flat == Flat(calls.content)
  IN  \A j, k \in DOMAIN flat :
        j < k /\ flat[j] = flat[k] => flat[j] \in Copied(byValue, calls.content)

\* To move, take out or put back an account update moves what is below it, or in
\* its tree, and nothing else: the rest of the transaction stays as it is and in
\* its order.  Only a forest put in the place of another one replaces that.
MovesOnlyItself ==
  [][status' = "building" /\ ~late' =>
       \E u \in Updates, p \in Updates \cup {Root} :
         LET Replaced == IF p \in DOMAIN heap.node /\ heap.forest[heap.node[p].children].final
                         THEN Under(heap, p) ELSE {}
             moved == {u} \cup Under(heap, u) \cup Under(heap', u) \cup InTree(heap, u) \cup Replaced
             Others(h) == SelectSeq(FlatForest(h, 1), LAMBDA v : v \notin moved)
         IN  Others(heap) = Others(heap')]_layoutVars
=============================================================================
