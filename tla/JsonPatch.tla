------------------------------ MODULE JsonPatch -----------------------------
(***************************************************************************)
(* patch, diff and merge_patch of the JSON library (src/src/json.h).  The  *)
(* names of operations, and of their members, are not taken apart and are  *)
(* strings of TLA+ here.                                                   *)
(***************************************************************************)
EXTENDS JsonPointer

\* The operations that diff makes.
ReplaceOperation(path, x) ==
  Object([op |-> Text("replace"), path |-> Text(path), value |-> x])
AddOperation(path, x) == Object([op |-> Text("add"), path |-> Text(path), value |-> x])
RemoveOperation(path) == Object([op |-> Text("remove"), path |-> Text(path)])
-----------------------------------------------------------------------------
(* patch *)

\* erase(key), erase(index), insert(position, value) and push_back
EraseKey(v, key) == Object([k \in DOMAIN v[2] \ {key} |-> v[2][k]])
EraseIndex(v, n) == IF n < Len(v[2]) THEN Array(RemoveAt(v[2], n + 1)) ELSE Throw
Insert(v, n, x) == Array(InsertAt(v[2], n + 1, x))
PushBack(v, x) == Array(Append(v[2], x))

\* The end of operation_add: a member is assigned, an element inserted.  Into a
\* string, number or boolean nothing can be added, which is asserted (Throw).
AddTo(parent, token, x) ==
  LET index == ArrayIndex(token)
  IN CASE Is(parent, "null") -> WithChild(EmptyObject, token, x)
       [] Is(parent, "object") -> WithChild(parent, token, x)
       [] Is(parent, "array") /\ token = Dash -> PushBack(parent, x)
       [] Is(parent, "array") /\ Is(index, "integer") ->
            IF index[2] <= Len(parent[2]) THEN Insert(parent, index[2], x) ELSE Throw
       [] OTHER -> Throw

\* get_unchecked: null becomes an array where the token could be an index (as
\* an empty token could), and "-" is the element after the last.
RECURSIVE AddBelow(_, _, _)
AddBelow(v, tokens, x) ==
  LET token == Head(tokens)
      holder == CASE ~Is(v, "null") -> v
                  [] Is(v, "null") /\ (token = Dash \/ Range(token) \subseteq Digit) -> EmptyArray
                  [] OTHER -> EmptyObject
      place == IF Is(holder, "array") /\ token = Dash THEN DumpInteger(Len(holder[2])) ELSE token
  IN IF Len(tokens) = 1 THEN AddTo(v, token, x)
     ELSE WithChild(holder, place, AddBelow(Child(holder, place), Tail(tokens), x))

OperationAdd(v, tokens, x) ==
  CASE tokens = <<>> -> x
    [] Len(tokens) > 1 /\ Is(ResolveToken(v, tokens[1]), "throw") -> Throw
    [] OTHER -> AddBelow(v, tokens, x)

\* What neither is an object nor an array is left as it is.
RemoveFrom(parent, token) ==
  LET index == ArrayIndex(token)
  IN CASE Is(parent, "object") ->
            IF token \in DOMAIN parent[2] THEN EraseKey(parent, token) ELSE Throw
       [] Is(parent, "array") ->
            IF Is(index, "integer") THEN EraseIndex(parent, index[2]) ELSE Throw
       [] OTHER -> parent
OperationRemove(v, tokens) ==
  IF tokens = <<>> \/ Is(Resolve(v, Front(tokens)), "throw") THEN Throw
  ELSE Place(v, Front(tokens), RemoveFrom(Resolve(v, Front(tokens)), Last(tokens)))

\* get_value, and the pointer that is the value of a member.
GetValue(operation, member) ==
  IF member \in DOMAIN operation[2] THEN operation[2][member] ELSE Throw
GetText(operation, member) ==
  IF Is(GetValue(operation, member), "string") THEN GetValue(operation, member) ELSE Throw
GetPointer(operation, member) ==
  LET reference == GetText(operation, member)
  IN IF Is(reference, "throw") THEN Throw ELSE Split(reference[2])

\* Mutant of LeftBehind: what is moved stays.
EverythingLeft(v, op, from) == v

\* The document that move or copy adds to.
LeftBehind(v, op, from) == IF op = Text("copy") THEN v ELSE OperationRemove(v, from)

\* move and copy are given the value that "from" leads to.
MoveOrCopy(v, operation, tokens) ==
  LET from == GetPointer(operation, "from")
      moved == IF Is(from, "throw") THEN Throw ELSE Resolve(v, from[2])
      left == LeftBehind(v, GetText(operation, "op"), from[2])
  IN CASE Is(moved, "throw") -> Throw
       [] ~Is(moved, "throw") /\ Is(left, "throw") -> Throw
       [] OTHER -> OperationAdd(left, tokens, moved)

\* One operation of a patch.
PatchOperation(v, operation) ==
  LET op == GetText(operation, "op")
      ptr == GetPointer(operation, "path")
      value == GetValue(operation, "value")
      tokens == ptr[2]
  IN IF Is(op, "throw") \/ Is(ptr, "throw") THEN Throw
     ELSE CASE op[2] \in {"add", "replace", "test"} /\ Is(value, "throw") -> Throw
            [] op[2] = "add" /\ ~Is(value, "throw") -> OperationAdd(v, tokens, value)
            [] op[2] = "replace" /\ ~Is(value, "throw") -> Place(v, tokens, value)
            [] op[2] = "test" /\ ~Is(value, "throw") ->
                 IF Resolve(v, tokens) = value THEN v ELSE Throw
            [] op[2] = "remove" -> OperationRemove(v, tokens)
            [] op[2] \in {"move", "copy"} -> MoveOrCopy(v, operation, tokens)
            [] OTHER -> Throw
Patch(v, patch) ==
  IF ~Is(patch, "array") THEN Throw
  ELSE FoldLeft(LAMBDA result, operation :
                  IF Is(result, "throw") \/ ~Is(operation, "object") THEN Throw
                  ELSE PatchOperation(result, operation),
                v, patch[2])
-----------------------------------------------------------------------------
(* diff *)

\* How many elements s has more than t.
Surplus(s, t) == IF Len(s) > Len(t) THEN Len(s) - Len(t) ELSE 0

\* Mutant of ElementsRemoved: the first one first.
ElementsRemovedForwards(source, target, path) ==
  [k \in 1 .. Surplus(source, target) |->
     RemoveOperation(BelowIndex(path, Len(target) + k))]

\* The elements that are too many, the last one first, and those that are
\* missing, the first one first.
ElementsRemoved(source, target, path) ==
  [k \in 1 .. Surplus(source, target) |->
     RemoveOperation(BelowIndex(path, Len(source) - k + 1))]
ElementsAdded(source, target, path) ==
  [k \in 1 .. Surplus(target, source) |->
     AddOperation(Below(path, Dash), target[Len(source) + k])]

\* The members that the source does not have.
MembersAdded(source, target, path) ==
  LET keys == SelectSeq(SortedKeys(target), LAMBDA key : key \notin DOMAIN source)
  IN [i \in DOMAIN keys |-> AddOperation(Below(path, keys[i]), target[keys[i]])]

RECURSIVE Differences(_, _, _)
ArrayDifferences(source, target, path) ==
  FlattenSeq([i \in 1 .. Min({Len(source), Len(target)}) |->
                Differences(source[i], target[i], BelowIndex(path, i))])
    \o ElementsRemoved(source, target, path) \o ElementsAdded(source, target, path)
ObjectDifferences(source, target, path) ==
  LET keys == SortedKeys(source)
  IN FlattenSeq([i \in DOMAIN keys |->
       IF keys[i] \in DOMAIN target
       THEN Differences(source[keys[i]], target[keys[i]], Below(path, keys[i]))
       ELSE <<RemoveOperation(Below(path, keys[i]))>>])
     \o MembersAdded(source, target, path)
Differences(source, target, path) ==
  CASE source = target -> <<>>
    [] source # target /\ Is(source, "array") /\ Is(target, "array") ->
         ArrayDifferences(source[2], target[2], path)
    [] source # target /\ Is(source, "object") /\ Is(target, "object") ->
         ObjectDifferences(source[2], target[2], path)
    [] OTHER -> <<ReplaceOperation(path, target)>>
Diff(source, target) == Array(Differences(source, target, <<>>))
-----------------------------------------------------------------------------
(* merge_patch *)

\* Mutant of ErasedBy: a null of the patch is a value.
NothingErasedBy(patch) == {}

ErasedBy(patch) == {key \in DOMAIN patch[2] : patch[2][key] = Null}
RECURSIVE MergePatch(_, _)
MergePatch(v, patch) ==
  IF ~Is(patch, "object") THEN patch
  ELSE LET target == IF Is(v, "object") THEN v ELSE EmptyObject
       IN Object([key \in (DOMAIN target[2] \cup DOMAIN patch[2]) \ ErasedBy(patch) |->
                    IF key \in DOMAIN patch[2]
                    THEN MergePatch(Subscript(target, key), patch[2][key])
                    ELSE target[2][key]])
=============================================================================
