------------------------------- MODULE Metadata -------------------------------
(***************************************************************************)
(* MD of metadata.go: a map from keys to slices of values.  Set, Append    *)
(* and Clone keep and extend slices, so what one MD holds depends on the   *)
(* arrays behind them, which other keys and other MDs may share.  The      *)
(* arrays are therefore modelled: a slice is a window on one of them.      *)
(***************************************************************************)
EXTENDS Integers, Sequences, FiniteSets, SequencesExt, FiniteSetsExt

CONSTANTS
  Names,   \* the keys the application uses, whatever their case
  Lower,   \* strings.ToLower
  Handles, \* the MDs the application holds
  MaxOps   \* bound: operations on them

ASSUME LowerAssumption ==
  Lower \in [Names -> Names] /\ \A k \in Names : Lower[Lower[k]] = Lower[k]

VARIABLES
  arrays,  \* the arrays allocated so far
  mds,     \* the MD each handle refers to
  ideal,   \* history: what the MDs would hold if they were plain values
  ops      \* history: the number of operations, from which come the values

vars == <<arrays, mds, ideal, ops>>

NoMD == [nil |-> TRUE]
Empty == [k \in {} |-> <<>>]

\* The slice arrays[arr][from : from + len : from + cap].
Slice(arr, from, len, cap) == [arr |-> arr, from |-> from, len |-> len, cap |-> cap]
View(mem, s) == SubSeq(mem[s.arr], s.from + 1, s.from + s.len)
Contents(mem, md) == [k \in DOMAIN md |-> View(mem, md[k])]

With(md, k, s) == [x \in DOMAIN md \cup {k} |-> IF x = k THEN s ELSE md[x]]
Without(md, k) == [x \in DOMAIN md \ {k} |-> md[x]]

\* Go's append: in place when the capacity allows it, else into a new array of
\* at least twice the capacity.
Room(s, n) == s.len + n <= s.cap
Grown(s, n) == Max({2 * s.cap, s.len + n})
AppendTo(mem, s, values) ==
  LET n == Len(values) IN
  IF Room(s, n)
  THEN [mem   |-> [mem EXCEPT ![s.arr] = [i \in DOMAIN @ |->
                     IF i - s.from - s.len \in 1 .. n THEN values[i - s.from - s.len] ELSE @[i]]],
        slice |-> [s EXCEPT !.len = @ + n]]
  ELSE LET kept == View(mem, s) \o values
           cap  == Grown(s, n)
       IN [mem   |-> Append(mem, [i \in 1 .. cap |-> IF i <= Len(kept) THEN kept[i] ELSE 0]),
           slice |-> Slice(Len(mem) + 1, 0, Len(kept), cap)]

-----------------------------------------------------------------------------
(* What the methods return.                                                *)

\* Get lowers the key; an empty list counts as absent.
Values(content, k) == IF k \in DOMAIN content THEN content[k] ELSE <<>>
Get(content, k) == Values(content, Lower[k])

\* Ranging over a map: how many values have come when order[i] is done.
Ends(content, order) ==
  LET end[i \in 0 .. Len(order)] ==
        IF i = 0 THEN 0 ELSE end[i - 1] + Len(content[order[i]])
  IN end

\* setRequest: the pairs of the request, keys in the order the map is ranged
\* over, each key as it is and its values in order.
Pairs(content, order) ==
  LET end == Ends(content, order) IN
  [n \in 1 .. end[Len(order)] |->
     LET i == CHOOSE i \in DOMAIN order : end[i - 1] < n /\ n <= end[i]
     IN [key |-> order[i], value |-> content[order[i]][n - end[i - 1]]]]

\* Faulty: a later value of a key replaces the earlier ones.
LastPairWins(pairs) ==
  [k \in {pairs[i].key : i \in DOMAIN pairs} |->
     <<Last(SelectSeq(pairs, LAMBDA p : p.key = k)).value>>]
\* fromRequest: each pair appends its value to those of its key.
Filled(pairs) ==
  LET md[n \in 0 .. Len(pairs)] ==
        IF n = 0 THEN Empty
        ELSE With(md[n - 1], pairs[n].key,
                  Append(Values(md[n - 1], pairs[n].key), pairs[n].value))
  IN md
FromRequest(pairs) == Filled(pairs)[Len(pairs)]

\* The orders in which a map with these keys may be ranged over.
Orders(md) == SetToSeqs(DOMAIN md)

-----------------------------------------------------------------------------
(* The operations.  The application passes values, not a slice that it got *)
(* from another MD: the variadic call makes a new array of them.  Each     *)
(* operation brings a value of its own.                                    *)

Init ==
  /\ arrays = <<>> /\ ops = 0
  /\ mds = [h \in Handles |-> NoMD]
  /\ ideal = [h \in Handles |-> NoMD]

Exists(h) == mds[h] # NoMD
Has(h, name) == Exists(h) /\ Lower[name] \in DOMAIN mds[h]
Count == ops < MaxOps /\ ops' = ops + 1

Make(h) ==
  /\ ~Exists(h) /\ Count
  /\ mds' = [mds EXCEPT ![h] = Empty] /\ ideal' = [ideal EXCEPT ![h] = Empty]
  /\ UNCHANGED arrays

\* MD{name: {value}}, which keeps the key as it is.
Literal(h, name) ==
  /\ ~Exists(h) /\ Count
  /\ arrays' = Append(arrays, <<ops'>>)
  /\ mds' = [mds EXCEPT ![h] = With(Empty, name, Slice(Len(arrays) + 1, 0, 1, 1))]
  /\ ideal' = [ideal EXCEPT ![h] = With(Empty, name, <<ops'>>)]

SetTo(h, name, values) ==
  /\ arrays' = Append(arrays, values)
  /\ LET new == Slice(Len(arrays) + 1, 0, Len(values), Len(values)) IN
       mds' = [mds EXCEPT ![h] = With(@, Lower[name], new)]
  /\ ideal' = [ideal EXCEPT ![h] = With(@, Lower[name], values)]

Set(h, name) == Exists(h) /\ Count /\ SetTo(h, name, <<ops'>>)

\* Set without a value.
Delete(h, name) ==
  /\ Has(h, name) /\ Count
  /\ mds' = [mds EXCEPT ![h] = Without(@, Lower[name])]
  /\ ideal' = [ideal EXCEPT ![h] = Without(@, Lower[name])]
  /\ UNCHANGED arrays

\* Append: Set keeps the slice that append returned, or the values themselves.
AppendValue(h, name) ==
  /\ Exists(h) /\ Count
  /\ \/ ~Has(h, name) /\ SetTo(h, name, <<ops'>>)
     \/ /\ Has(h, name)
        /\ LET r == AppendTo(arrays, mds[h][Lower[name]], <<ops'>>) IN
             /\ arrays' = r.mem
             /\ mds' = [mds EXCEPT ![h][Lower[name]] = r.slice]
        /\ ideal' = [ideal EXCEPT ![h][Lower[name]] = Append(@, ops')]

\* Faulty: a window of the clone reaches into those after it.
Uncapped(from, len, total) == Slice(Len(arrays) + 1, from, len, total - from)
\* A window of the one array a clone has for all its keys: sv[:n:n].
Window(from, len, total) == Slice(Len(arrays) + 1, from, len, len)

\* Clone, ranging over the keys in the given order.
CloneInto(h, g, order) ==
  LET content == Contents(arrays, mds[h])
      pairs   == Pairs(content, order)
      end     == Ends(content, order)
  IN /\ arrays' = Append(arrays, [n \in DOMAIN pairs |-> pairs[n].value])
     /\ mds' = [mds EXCEPT ![g] = [k \in DOMAIN mds[h] |->
          LET i == CHOOSE i \in DOMAIN order : order[i] = k
          IN Window(end[i - 1], Len(content[k]), Len(pairs))]]

Clone(h, g) ==
  /\ Exists(h) /\ h # g /\ Count
  /\ \E order \in Orders(mds[h]) : CloneInto(h, g, order)
  /\ ideal' = [ideal EXCEPT ![g] = ideal[h]]

Next ==
  \E h \in Handles :
    \/ Make(h) \/ \E g \in Handles : Clone(h, g)
    \/ \E name \in Names : Literal(h, name) \/ Set(h, name) \/ Delete(h, name) \/ AppendValue(h, name)

Spec == Init /\ [][Next]_vars

-----------------------------------------------------------------------------
\* MDs behave as values: whatever was set, appended and cloned before, and
\* although appends write in place and a clone keeps all its keys in a single
\* array, an operation on one MD changes no other, and on one key no other key.
MDsAreValues ==
  \A h \in Handles : Exists(h) => Contents(arrays, mds[h]) = ideal[h]
=============================================================================
