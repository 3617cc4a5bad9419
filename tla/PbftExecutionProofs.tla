-------------------------- MODULE PbftExecutionProofs -------------------------
(***************************************************************************)
(* Execution: ExecutionInv is an inductive invariant.  It says that the    *)
(* application of every replica was called with what one pass of the       *)
(* filter over the executed log lets through, so that the calls are those  *)
(* of every other replica, and each request among them is called once.     *)
(***************************************************************************)
EXTENDS PbftProofs

-------------------------------------------------------------------------------
(* The order of calls. *)

\* A set of calls that is not empty has one that no other precedes.
LEMMA FirstCall ==
  ASSUME NEW S \in SUBSET Call, S # {}
  PROVE  \E first \in S : \A y \in S : ~Precedes(y, first)
<1> DEFINE ops == {x.op_number : x \in S}
<1>1. ops \in SUBSET Nat /\ ops # {}
  BY DEF Call, OpNumber
<1>2. PICK op \in ops : \A k \in ops : op <= k
  <2> HIDE DEF ops
  <2> QED  BY <1>1, LeastNatural
<1> DEFINE indices == {x.index : x \in {y \in S : y.op_number = op}}
<1>3. indices \in SUBSET Nat /\ indices # {}
  BY DEF Call, OpNumber
<1>4. PICK p \in indices : \A k \in indices : p <= k
  <2> HIDE DEF indices
  <2> QED  BY <1>3, LeastNatural
<1>5. PICK first \in S : first.op_number = op /\ first.index = p
  BY <1>4
<1>6. ASSUME NEW y \in S  PROVE ~Precedes(y, first)
  <2>1. op \in Nat /\ p \in Nat /\ y.op_number \in Nat /\ y.index \in Nat
    BY <1>1, <1>3 DEF Call, OpNumber
  <2>2. op <= y.op_number
    BY <1>2
  <2>3. y.op_number = op => p <= y.index
    BY <1>4
  <2> QED  BY <1>5, <2>1, <2>2, <2>3 DEF Precedes
<1> QED  BY <1>6

-------------------------------------------------------------------------------
(* The filter and the table. *)

\* The numbers that the calls of a set have for a client.
Numbers(calls, c) ==
  {x.request.request_number : x \in {y \in calls : y.request.client = c}}

TableAfter(table, fresh) ==
  [c \in Client |-> Latest(table[c], Numbers(fresh, c))]

LEMMA CallNumber ==
  ASSUME NEW x \in Call
  PROVE  /\ x.op_number \in Nat /\ x.index \in Nat
         /\ x.request \in Request
         /\ x.request.client \in Client
         /\ x.request.request_number \in Nat
         /\ x.request.request_number > 0
         /\ x.request.request_number <= MaxRequest
BY PbftAssumption DEF Call, OpNumber, Request

\* A client's entry in the table becomes the newest of the entry and of the
\* client's calls.
LEMMA TableAfterIsMaximum ==
  ASSUME NEW table \in [Client -> 0..MaxRequest], NEW fresh \in SUBSET Call,
         NEW c \in Client
  PROVE  LET new == TableAfter(table, fresh)[c]
         IN  /\ new \in {table[c]} \cup Numbers(fresh, c)
             /\ new \in Nat
             /\ table[c] \in Nat
             /\ table[c] <= new
             /\ \A x \in fresh :
                  x.request.client = c => x.request.request_number <= new
<1>1. table[c] \in 0..MaxRequest /\ table[c] \in Nat
  BY PbftAssumption
<1>2. Numbers(fresh, c) \in SUBSET (0..MaxRequest)
  BY CallNumber, PbftAssumption DEF Numbers
<1>3. /\ Latest(table[c], Numbers(fresh, c)) \in {table[c]} \cup Numbers(fresh, c)
      /\ \A k \in {table[c]} \cup Numbers(fresh, c) :
           k <= Latest(table[c], Numbers(fresh, c))
  BY <1>1, <1>2, LatestIsMaximum
<1>4. TableAfter(table, fresh)[c] = Latest(table[c], Numbers(fresh, c))
  BY DEF TableAfter
<1>5. \A x \in fresh : x.request.client = c => x.request.request_number \in Numbers(fresh, c)
  BY DEF Numbers
<1>6. TableAfter(table, fresh)[c] \in Nat
  BY <1>1, <1>2, <1>3, <1>4, PbftAssumption
<1> QED  BY <1>1, <1>3, <1>4, <1>5, <1>6

\* After a sweep the table is at least as new as every request of the sweep,
\* those that the filter dropped included.
LEMMA SweepIsCovered ==
  ASSUME NEW table \in [Client -> 0..MaxRequest], NEW slots \in SUBSET Call
  PROVE  \A x \in slots :
           x.request.request_number
             <= TableAfter(table, Fresh(table, slots))[x.request.client]
<1> DEFINE new == TableAfter(table, Fresh(table, slots))
           bad == {x \in slots : ~(x.request.request_number <= new[x.request.client])}
<1>1. Fresh(table, slots) \in SUBSET Call
  BY DEF Fresh
<1>2. \A c \in Client :
        /\ new[c] \in Nat /\ table[c] \in Nat /\ table[c] <= new[c]
        /\ \A x \in Fresh(table, slots) :
             x.request.client = c => x.request.request_number <= new[c]
  BY <1>1, TableAfterIsMaximum
<1> SUFFICES ASSUME bad # {}  PROVE FALSE
  OBVIOUS
<1>3. PICK x \in bad : \A y \in bad : ~Precedes(y, x)
  <2>1. bad \in SUBSET Call
    OBVIOUS
  <2> HIDE DEF bad
  <2> QED  BY <2>1, FirstCall
<1> HIDE DEF new
<1>4. /\ x.request.client \in Client /\ x.request.request_number \in Nat
      /\ ~(x.request.request_number <= new[x.request.client])
  BY CallNumber
<1>5. table[x.request.client] < x.request.request_number
  BY <1>2, <1>4
<1>6. ASSUME NEW y \in slots, Precedes(y, x), y.request.client = x.request.client
      PROVE  y.request.request_number < x.request.request_number
  <2>1. y.request.request_number \in Nat
    BY CallNumber
  <2>2. y.request.request_number <= new[x.request.client]
    BY <1>3, <1>6
  <2> QED  BY <1>2, <1>4, <2>1, <2>2
<1>7. x \in Fresh(table, slots)
  BY <1>5, <1>6 DEF Fresh
<1> QED  BY <1>2, <1>4, <1>7

\* The filter over two sweeps, the second with the table that stands for the
\* first, lets through what it does over both at once.
LEMMA FreshSplits ==
  ASSUME NEW table \in [Client -> 0..MaxRequest],
         NEW A \in SUBSET Call, NEW B \in SUBSET Call,
         \A x \in A, y \in B : x.op_number < y.op_number,
         \A x \in A : x.request.request_number <= table[x.request.client],
         \A c \in Client : table[c] # 0 =>
           \E x \in A : x.request.client = c /\ x.request.request_number = table[c]
  PROVE  Fresh(EmptyTable, A \cup B)
           = Fresh(EmptyTable, A) \cup Fresh(table, B)
<1>1. \A x \in A \cup B :
        /\ x.op_number \in Nat /\ x.request.client \in Client
        /\ x.request.request_number \in Nat /\ x.request.request_number > 0
        /\ EmptyTable[x.request.client] = 0
        /\ table[x.request.client] \in Nat
  BY CallNumber, PbftAssumption DEF EmptyTable
<1>2. \A x \in A, y \in B : x \notin B /\ Precedes(x, y) /\ ~Precedes(y, x)
  BY <1>1 DEF Precedes
<1>3. ASSUME NEW x \in A
      PROVE  x \in Fresh(EmptyTable, A \cup B)
               <=> x \in Fresh(EmptyTable, A) \cup Fresh(table, B)
  BY <1>2 DEF Fresh
<1>4. ASSUME NEW x \in B
      PROVE  x \in Fresh(EmptyTable, A \cup B)
               <=> x \in Fresh(EmptyTable, A) \cup Fresh(table, B)
  <2> DEFINE c == x.request.client
             n == x.request.request_number
  <2>1. c \in Client /\ n \in Nat /\ n > 0 /\ EmptyTable[c] = 0 /\ table[c] \in Nat
    BY <1>1
  <2>2. ASSUME table[c] < n, NEW y \in A, y.request.client = c
        PROVE  y.request.request_number < n
    <3>1. y.request.request_number <= table[c] /\ y.request.request_number \in Nat
      BY <1>1, <2>2
    <3> QED  BY <2>1, <2>2, <3>1
  <2>3. ASSUME \A y \in A : y.request.client = c => y.request.request_number < n
        PROVE  table[c] < n
    <3>1. CASE table[c] = 0
      BY <2>1, <3>1
    <3>2. CASE table[c] # 0
      BY <2>1, <2>3, <3>2
    <3> QED  BY <3>1, <3>2
  <2>4. x \in Fresh(EmptyTable, A \cup B) <=>
          /\ \A y \in A : y.request.client = c => y.request.request_number < n
          /\ \A y \in B : Precedes(y, x) /\ y.request.client = c
                            => y.request.request_number < n
    BY <1>2, <2>1 DEF Fresh
  <2>5. x \in Fresh(table, B) <=>
          /\ table[c] < n
          /\ \A y \in B : Precedes(y, x) /\ y.request.client = c
                            => y.request.request_number < n
    BY DEF Fresh
  <2>6. x \notin Fresh(EmptyTable, A)
    BY <1>2 DEF Fresh
  <2> QED  BY <2>2, <2>3, <2>4, <2>5, <2>6
<1>5. /\ Fresh(EmptyTable, A \cup B) \subseteq A \cup B
      /\ Fresh(EmptyTable, A) \subseteq A
      /\ Fresh(table, B) \subseteq B
  BY DEF Fresh
<1> QED  BY <1>3, <1>4, <1>5

-------------------------------------------------------------------------------
(* The executed slots. *)

\* Slots depend only on the batches they are taken from.
LEMMA SameSlots ==
  ASSUME NEW entries, NEW others, NEW lo, NEW hi,
         \A k \in lo..hi : entries[k] = others[k]
  PROVE  Slots(entries, lo, hi) = Slots(others, lo, hi)
BY DEF Slots

LEMMA SlotsSplit ==
  ASSUME NEW entries, NEW mid \in Nat, NEW hi \in Nat, mid <= hi
  PROVE  Slots(entries, 1, hi) = Slots(entries, 1, mid) \cup Slots(entries, mid + 1, hi)
<1>1. 1..hi = (1..mid) \cup ((mid + 1)..hi)
  OBVIOUS
<1> QED  BY <1>1 DEF Slots

\* The slots of executed batches, what they are and where they are.
LEMMA ExecutedSlot ==
  ASSUME TypeOK, ExecutedIsCommitted, NEW i \in Replica
  PROVE  /\ ExecutedSlots(i) \in SUBSET Call
         /\ \A x \in ExecutedSlots(i) : x.op_number \in 1..execute_number[i]
         /\ execute_number[i] \in Nat /\ execute_number[i] <= Len(log[i])
<1>1. execute_number[i] \in Nat /\ execute_number[i] <= Len(log[i])
  BY DEF TypeOK, ReplicaTypeOK, ExecutedIsCommitted
<1>2. 1 \in OpNumber
  BY DEF OpNumber
<1>3. \A x : x \in Slots(log[i], 1, execute_number[i]) =>
        x \in Call /\ x.op_number \in 1..execute_number[i]
  BY <1>1, <1>2, SlotOfLog
<1> QED  BY <1>1, <1>3 DEF ExecutedSlots

\* A step that executes nothing leaves the executed slots alone.
LEMMA SlotsStay ==
  ASSUME TypeOK, ExecutedIsCommitted, Grows, NEW i \in Replica,
         execute_number'[i] = execute_number[i]
  PROVE  ExecutedSlots(i)' = ExecutedSlots(i)
<1>1. \A k \in 1..execute_number[i] : log'[i][k] = log[i][k]
  <2>1. 1..execute_number[i] \subseteq 1..Len(log[i])
    BY ExecutedSlot, LogType
  <2> QED  BY <2>1 DEF Grows
<1>2. Slots(log'[i], 1, execute_number[i]) = Slots(log[i], 1, execute_number[i])
  BY <1>1, SameSlots
<1> QED  BY <1>2 DEF ExecutedSlots

-------------------------------------------------------------------------------
(* What executing does. *)

\* Executed is what was executed before and one sweep through the filter.
LEMMA ExecuteSweep ==
  ASSUME TypeOK, ExecutedIsCommitted, NEW i \in Replica, NEW commits,
         Execute(i, commits), UNCHANGED log
  PROVE  \E slots \in SUBSET Call :
           LET fresh == Fresh(client_table[i], slots)
           IN  /\ ExecutedSlots(i)' = ExecutedSlots(i) \cup slots
               /\ \A x \in ExecutedSlots(i), y \in slots : x.op_number < y.op_number
               /\ app' = [app EXCEPT ![i] = @ \cup fresh]
               /\ client_table' = [client_table EXCEPT ![i] = TableAfter(@, fresh)]
               /\ replies' = replies \cup {Reply(x.request, i) : x \in fresh}
<1> DEFINE exec == execute_number[i]
<1>1. PICK to \in exec..Len(log[i]) :
        LET fresh == Fresh(client_table[i], Slots(log[i], exec + 1, to))
        IN  /\ execute_number' = [execute_number EXCEPT ![i] = to]
            /\ app' = [app EXCEPT ![i] = @ \cup fresh]
            /\ client_table' = [client_table EXCEPT ![i] =
                 [c \in Client |-> Latest(@[c],
                    {x.request.request_number :
                       x \in {y \in fresh : y.request.client = c}})]]
            /\ replies' = replies \cup {Reply(x.request, i) : x \in fresh}
  BY DEF Execute
<1>2. /\ exec \in Nat /\ Len(log[i]) \in Nat /\ to \in Nat
      /\ exec <= to /\ to <= Len(log[i]) /\ exec + 1 \in OpNumber
      /\ execute_number'[i] = to
  BY <1>1, LogType DEF TypeOK, ReplicaTypeOK, OpNumber
<1> DEFINE slots == Slots(log[i], exec + 1, to)
<1>3. \A x \in slots : x \in Call /\ x.op_number \in (exec + 1)..to
  BY <1>2, SlotOfLog
<1>4. ExecutedSlots(i)' = ExecutedSlots(i) \cup slots
  <2>1. Slots(log[i], 1, to) = Slots(log[i], 1, exec) \cup slots
    <3>1. \A mid \in Nat, hi \in Nat : mid <= hi =>
            Slots(log[i], 1, hi) = Slots(log[i], 1, mid) \cup Slots(log[i], mid + 1, hi)
      BY SlotsSplit
    <3> QED  BY <1>2, <3>1
  <2>2. log'[i] = log[i]
    OBVIOUS
  <2> HIDE DEF slots
  <2> QED  BY <1>2, <2>1, <2>2 DEF ExecutedSlots
<1>5. \A x \in ExecutedSlots(i), y \in slots : x.op_number < y.op_number
  <2> HIDE DEF slots
  <2>1. \A x \in ExecutedSlots(i) : x.op_number \in 1..exec
    BY ExecutedSlot
  <2> QED  BY <1>2, <1>3, <2>1
<1>6. slots \in SUBSET Call
  BY <1>3
<1>7. /\ app' = [app EXCEPT ![i] = @ \cup Fresh(client_table[i], slots)]
      /\ client_table' = [client_table EXCEPT ![i] =
           TableAfter(@, Fresh(client_table[i], slots))]
      /\ replies' = replies \cup
           {Reply(x.request, i) : x \in Fresh(client_table[i], slots)}
  BY <1>1 DEF TableAfter, Numbers
<1> HIDE DEF slots
<1> QED  BY <1>4, <1>5, <1>6, <1>7

\* A request was executed if one of the calls has its client and number.
LEMMA ExecutedCall ==
  ASSUME NEW calls \in SUBSET Call, NEW c, NEW n
  PROVE  (\E x \in calls : x.request = [client |-> c, request_number |-> n]) <=>
           \E x \in calls : x.request.client = c /\ x.request.request_number = n
<1>1. \A r \in Request : r = [client |-> c, request_number |-> n] <=>
        r.client = c /\ r.request_number = n
  BY DEF Request
<1> QED  BY <1>1, CallNumber

\* The table is at least as new as every executed request, and its entries are
\* requests that were let through.
LEMMA TableOfSlots ==
  ASSUME TypeOK, ExecutedIsCommitted, AppIsFiltered, TableIsNewest, NEW i \in Replica
  PROVE  /\ client_table[i] \in [Client -> 0..MaxRequest]
         /\ \A x \in ExecutedSlots(i) :
              x.request.request_number <= client_table[i][x.request.client]
         /\ app[i] \subseteq ExecutedSlots(i)
         /\ \A c \in Client : client_table[i][c] # 0 =>
              \E x \in app[i] : /\ x.request.client = c
                                /\ x.request.request_number = client_table[i][c]
<1>1. client_table[i] \in [Client -> 0..MaxRequest]
  BY DEF TypeOK, ReplicaTypeOK
<1>2. \A x \in ExecutedSlots(i) :
        x.request.request_number <= client_table[i][x.request.client]
  BY ExecutedSlot, CallNumber DEF TableIsNewest
<1>3. app[i] \subseteq ExecutedSlots(i)
  BY DEF AppIsFiltered, Fresh
<1>4. ASSUME NEW c \in Client, client_table[i][c] # 0
      PROVE  \E x \in app[i] : /\ x.request.client = c
                               /\ x.request.request_number = client_table[i][c]
  <2>1. \A n : HasExecuted(i, [client |-> c, request_number |-> n]) <=>
                 \E x \in app[i] : x.request.client = c /\ x.request.request_number = n
    <3>1. \A k : (\E x \in app[i] : x.request = [client |-> c, request_number |-> k]) <=>
                   \E x \in app[i] : x.request.client = c /\ x.request.request_number = k
      BY ExecutedCall DEF TypeOK, ReplicaTypeOK
    <3> QED  BY <3>1 DEF HasExecuted
  <2> QED  BY <1>4, <2>1 DEF TableIsNewest
<1> QED  BY <1>1, <1>2, <1>3, <1>4

\* One sweep keeps the calls filtered and the table the newest.
LEMMA ExecuteFilters ==
  ASSUME TypeOK, TypeOK', ExecutedIsCommitted, AppIsFiltered, TableIsNewest,
         NEW i \in Replica, NEW commits, Execute(i, commits), UNCHANGED log
  PROVE  /\ app'[i] = Fresh(EmptyTable, ExecutedSlots(i)')
         /\ \A c \in Client :
              /\ \A x \in ExecutedSlots(i)' :
                   x.request.client = c => x.request.request_number <= client_table'[i][c]
              /\ client_table'[i][c] # 0 =>
                   \E x \in app'[i] : /\ x.request.client = c
                                      /\ x.request.request_number = client_table'[i][c]
         /\ app[i] \subseteq app'[i]
         /\ \A m \in replies' \ replies :
              /\ m.replica_id = i
              /\ \E x \in app'[i] : m = Reply(x.request, i)
         /\ replies \subseteq replies'
         /\ \A j \in Replica \ {i} : app'[j] = app[j] /\ client_table'[j] = client_table[j]
<1>1. PICK slots \in SUBSET Call :
        LET fresh == Fresh(client_table[i], slots)
        IN  /\ ExecutedSlots(i)' = ExecutedSlots(i) \cup slots
            /\ \A x \in ExecutedSlots(i), y \in slots : x.op_number < y.op_number
            /\ app' = [app EXCEPT ![i] = @ \cup fresh]
            /\ client_table' = [client_table EXCEPT ![i] = TableAfter(@, fresh)]
            /\ replies' = replies \cup {Reply(x.request, i) : x \in fresh}
  BY ExecuteSweep
<1> DEFINE table == client_table[i]
           fresh == Fresh(table, slots)
           old == ExecutedSlots(i)
<1>2. /\ app'[i] = app[i] \cup fresh
      /\ client_table'[i] = TableAfter(table, fresh)
      /\ \A j \in Replica \ {i} : app'[j] = app[j] /\ client_table'[j] = client_table[j]
  BY <1>1 DEF TypeOK, ReplicaTypeOK
<1>3. /\ table \in [Client -> 0..MaxRequest]
      /\ \A x \in old : x.request.request_number <= table[x.request.client]
      /\ \A c \in Client : table[c] # 0 =>
           \E x \in old : x.request.client = c /\ x.request.request_number = table[c]
  BY TableOfSlots
<1>4. old \in SUBSET Call /\ fresh \in SUBSET Call
  BY ExecutedSlot DEF Fresh
<1>5. app'[i] = Fresh(EmptyTable, ExecutedSlots(i)')
  <2>1. Fresh(EmptyTable, old \cup slots)
          = Fresh(EmptyTable, old) \cup fresh
    <3> HIDE DEF table, old
    <3>1. \A x \in old, y \in slots : x.op_number < y.op_number
      BY <1>1 DEF old
    <3>2. \A t \in [Client -> 0..MaxRequest] : \A A \in SUBSET Call :
            /\ \A x \in A, y \in slots : x.op_number < y.op_number
            /\ \A x \in A : x.request.request_number <= t[x.request.client]
            /\ \A c \in Client : t[c] # 0 =>
                 \E x \in A : x.request.client = c /\ x.request.request_number = t[c]
            => Fresh(EmptyTable, A \cup slots)
                 = Fresh(EmptyTable, A) \cup Fresh(t, slots)
      BY FreshSplits
    <3> QED  BY <1>3, <1>4, <3>1, <3>2 DEF table
  <2>2. app[i] = Fresh(EmptyTable, old)
    BY DEF AppIsFiltered
  <2> QED  BY <1>1, <1>2, <2>1, <2>2
<1>6. ASSUME NEW c \in Client
      PROVE  /\ \A x \in ExecutedSlots(i)' :
                  x.request.client = c => x.request.request_number <= client_table'[i][c]
             /\ client_table'[i][c] # 0 =>
                  \E x \in app'[i] : /\ x.request.client = c
                                     /\ x.request.request_number = client_table'[i][c]
  <2> DEFINE new == TableAfter(table, fresh)[c]
  <2>1. /\ new \in {table[c]} \cup Numbers(fresh, c)
        /\ new \in Nat /\ table[c] \in Nat /\ table[c] <= new
    <3> HIDE DEF table, fresh
    <3> QED  BY <1>3, <1>4, TableAfterIsMaximum
  <2>2. ASSUME NEW x \in old, x.request.client = c
        PROVE  x.request.request_number <= new
    <3>1. x.request.request_number <= table[c] /\ x.request.request_number \in Nat
      BY <1>3, <1>4, <2>2, CallNumber
    <3> HIDE DEF new, table
    <3> QED  BY <2>1, <3>1
  <2>3. ASSUME NEW x \in slots, x.request.client = c
        PROVE  x.request.request_number <= new
    <3>1. \A y \in slots :
            y.request.request_number <= TableAfter(table, fresh)[y.request.client]
      <4> HIDE DEF table
      <4> QED  BY <1>3, SweepIsCovered
    <3> QED  BY <2>3, <3>1
  <2>4. ASSUME new # 0
        PROVE  \E x \in app'[i] : x.request.client = c /\ x.request.request_number = new
    <3>1. CASE new = table[c]
      <4>1. \E x \in app[i] : x.request.client = c /\ x.request.request_number = new
        BY <2>4, <3>1, TableOfSlots
      <4> QED  BY <1>2, <4>1
    <3>2. CASE new \in Numbers(fresh, c)
      BY <1>2, <3>2 DEF Numbers
    <3> QED  BY <2>1, <3>1, <3>2
  <2>5. client_table'[i][c] = new
    BY <1>2
  <2> HIDE DEF new
  <2> QED  BY <1>1, <2>2, <2>3, <2>4, <2>5
<1>7. /\ \A m \in replies' \ replies :
           m.replica_id = i /\ \E x \in app'[i] : m = Reply(x.request, i)
      /\ replies \subseteq replies'
  <2> HIDE DEF fresh
  <2>1. replies' = replies \cup {Reply(x.request, i) : x \in fresh}
    BY <1>1 DEF fresh
  <2> QED  BY <1>2, <2>1 DEF Reply
<1> HIDE DEF fresh, old, table
<1> QED  BY <1>2, <1>5, <1>6, <1>7

-------------------------------------------------------------------------------
(* The steps. *)

\* What a step leaves of what was executed.
Keeps ==
  /\ \A i \in Replica : app[i] \subseteq app'[i]
  /\ AppIsFiltered'
  /\ TableIsNewest'

LEMMA QuietKeeps ==
  ASSUME TypeOK, ExecutedIsCommitted, AppIsFiltered, TableIsNewest, Grows,
         UNCHANGED executeVars
  PROVE  Keeps
<1>1. \A i \in Replica : ExecutedSlots(i)' = ExecutedSlots(i)
  BY SlotsStay DEF executeVars
<1>2. /\ app' = app /\ client_table' = client_table
      /\ \A i, r : HasExecuted(i, r)' <=> HasExecuted(i, r)
  BY DEF executeVars, HasExecuted
<1>3. AppIsFiltered'
  BY <1>1, <1>2 DEF AppIsFiltered
<1>4. TableIsNewest'
  BY <1>1, <1>2 DEF TableIsNewest
<1> QED  BY <1>2, <1>3, <1>4 DEF Keeps

LEMMA ExecuteKeeps ==
  ASSUME TypeOK, TypeOK', ExecutedIsCommitted, AppIsFiltered, TableIsNewest, Grows,
         NEW i \in Replica, NEW commits, Execute(i, commits), UNCHANGED log
  PROVE  /\ Keeps
         /\ \A m \in replies' \ replies :
              HasExecuted(m.replica_id,
                [client |-> m.client, request_number |-> m.request_number])'
<1>1. /\ app'[i] = Fresh(EmptyTable, ExecutedSlots(i)')
      /\ \A c \in Client :
           /\ \A x \in ExecutedSlots(i)' :
                x.request.client = c => x.request.request_number <= client_table'[i][c]
           /\ client_table'[i][c] # 0 =>
                \E x \in app'[i] : /\ x.request.client = c
                                   /\ x.request.request_number = client_table'[i][c]
      /\ app[i] \subseteq app'[i]
      /\ \A m \in replies' \ replies :
           m.replica_id = i /\ \E x \in app'[i] : m = Reply(x.request, i)
      /\ \A j \in Replica \ {i} : app'[j] = app[j] /\ client_table'[j] = client_table[j]
  BY ExecuteFilters
<1>2. \A j \in Replica \ {i} : ExecutedSlots(j)' = ExecutedSlots(j)
  <2>1. \A j \in Replica \ {i} : execute_number'[j] = execute_number[j]
    BY DEF Execute, TypeOK, ReplicaTypeOK
  <2> QED  BY <2>1, SlotsStay
<1>3. \A c, n : HasExecuted(i, [client |-> c, request_number |-> n])' <=>
        \E x \in app'[i] : x.request.client = c /\ x.request.request_number = n
  <2>1. app'[i] \in SUBSET Call
    BY DEF TypeOK, ReplicaTypeOK
  <2>2. \A c, n :
          (\E x \in app'[i] : x.request = [client |-> c, request_number |-> n]) <=>
            \E x \in app'[i] : x.request.client = c /\ x.request.request_number = n
    BY <2>1, ExecutedCall
  <2> QED  BY <2>2 DEF HasExecuted
<1>4. AppIsFiltered'
  BY <1>1, <1>2 DEF AppIsFiltered
<1>5. TableIsNewest'
  <2>1. ASSUME NEW j \in Replica, NEW c \in Client
        PROVE  /\ \A x \in ExecutedSlots(j)' :
                    x.request.client = c => x.request.request_number <= client_table'[j][c]
               /\ client_table'[j][c] # 0 =>
                    HasExecuted(j, [client |-> c, request_number |-> client_table[j][c]])'
    <3>1. CASE j = i
      BY <1>1, <1>3, <3>1
    <3>2. CASE j # i
      <4>1. ExecutedSlots(j)' = ExecutedSlots(j) /\ app'[j] = app[j]
            /\ client_table'[j] = client_table[j]
        BY <1>1, <1>2, <3>2
      <4> QED  BY <4>1 DEF TableIsNewest, HasExecuted
    <3> QED  BY <3>1, <3>2
  <2> QED  BY <2>1 DEF TableIsNewest
<1>6. ASSUME NEW m \in replies' \ replies
      PROVE  HasExecuted(m.replica_id,
               [client |-> m.client, request_number |-> m.request_number])'
  <2>1. PICK x \in app'[i] : m = Reply(x.request, i) /\ m.replica_id = i
    BY <1>1
  <2>2. x.request.client = m.client /\ x.request.request_number = m.request_number
    BY <2>1 DEF Reply
  <2> QED  BY <1>3, <2>1, <2>2
<1>7. \A j \in Replica : app[j] \subseteq app'[j]
  BY <1>1
<1> QED  BY <1>4, <1>5, <1>6, <1>7 DEF Keeps

LEMMA RepliesStay ==
  ASSUME TypeOK, RepliesAreExecuted, \A i \in Replica : app[i] \subseteq app'[i],
         \A m \in replies' \ replies :
           HasExecuted(m.replica_id,
             [client |-> m.client, request_number |-> m.request_number])'
  PROVE  RepliesAreExecuted'
<1>1. \A m \in replies : m.replica_id \in Replica
  BY DEF TypeOK, NetworkTypeOK, ReplyMessage
<1> QED  BY <1>1 DEF RepliesAreExecuted, HasExecuted

LEMMA ReplicaExecutes ==
  ASSUME TypeOK, TypeOK', AgreementInv, ExecutionInv, Grows,
         NEW i \in Replica, MainPoll(i)
  PROVE  Keeps /\ RepliesAreExecuted'
<1> USE DEF AgreementInv, ExecutionInv
<1>1. ASSUME UNCHANGED executeVars, UNCHANGED replies
      PROVE  Keeps /\ RepliesAreExecuted'
  BY <1>1, QuietKeeps, RepliesStay DEF Keeps
<1>2. ASSUME NEW m \in Request, HandleRequest(m)
      PROVE  Keeps /\ RepliesAreExecuted'
  <2>1. CASE UNCHANGED replies
    BY <1>1, <1>2, <2>1 DEF HandleRequest
  <2>2. CASE /\ client_table[Primary][m.client] = m.request_number
             /\ replies' = replies \cup {Reply(m, Primary)}
    <3>1. Keeps
      BY <1>2, QuietKeeps DEF HandleRequest
    <3>2. m.client \in Client /\ m.request_number # 0
      BY PbftAssumption DEF Request
    <3>3. HasExecuted(Primary, [client |-> m.client, request_number |-> m.request_number])
      BY <2>2, <3>2, PbftAssumption DEF TableIsNewest
    <3>4. \A r \in replies' \ replies :
            HasExecuted(r.replica_id,
              [client |-> r.client, request_number |-> r.request_number])'
      BY <2>2, <3>1, <3>3, PbftAssumption DEF Keeps, HasExecuted, Reply
    <3> QED  BY <3>1, <3>4, RepliesStay DEF Keeps
  <2> QED  BY <1>2, <2>1, <2>2 DEF HandleRequest
<1>3. ASSUME NEW m, HandlePrePrepare(i, m)
      PROVE  Keeps /\ RepliesAreExecuted'
  BY <1>1, <1>3 DEF HandlePrePrepare
<1>4. ASSUME NEW m, HandlePrepare(i, m)
      PROVE  Keeps /\ RepliesAreExecuted'
  BY <1>1, <1>4 DEF HandlePrepare
<1>5. ASSUME NEW m, HandleCommit(i, m)
      PROVE  Keeps /\ RepliesAreExecuted'
  <2>1. CASE UNCHANGED <<executeVars, replies>>
    BY <1>1, <2>1
  <2>2. ASSUME NEW commits, Execute(i, commits)
        PROVE  Keeps /\ RepliesAreExecuted'
    <3>1. UNCHANGED log
      BY <1>5 DEF HandleCommit, orderVars
    <3>2. /\ Keeps
          /\ \A r \in replies' \ replies :
               HasExecuted(r.replica_id,
                 [client |-> r.client, request_number |-> r.request_number])'
      BY <2>2, <3>1, ExecuteKeeps
    <3> QED  BY <3>2, RepliesStay DEF Keeps
  <2> QED  BY <1>5, <2>1, <2>2 DEF HandleCommit
<1> QED  BY <1>2, <1>3, <1>4, <1>5 DEF MainPoll

-------------------------------------------------------------------------------
(* The clients. *)

\* The replicas that have executed request n of client c.
Executors(c, n) == {i \in Replica : HasExecuted(i, [client |-> c, request_number |-> n])}

LEMMA ExecutorsGrow ==
  ASSUME TypeOK, \A i \in Replica : app[i] \subseteq app'[i], NEW c, NEW n,
         Cardinality(Executors(c, n)) > F
  PROVE  Cardinality(Executors(c, n)') > F
<1>1. /\ Executors(c, n) \subseteq Executors(c, n)'
      /\ Executors(c, n) \in SUBSET Replica /\ Executors(c, n)' \in SUBSET Replica
  BY DEF Executors, HasExecuted
<1> HIDE DEF Executors
<1>2. /\ Cardinality(Executors(c, n)) \in Nat /\ Cardinality(Executors(c, n)') \in Nat
      /\ Cardinality(Executors(c, n)) <= Cardinality(Executors(c, n)')
  BY <1>1, LargerQuorum
<1> QED  BY <1>2, PbftAssumption

\* Clients that do nothing keep what they know.
LEMMA ResultsStay ==
  ASSUME TypeOK, ResultsAreExecuted, ResultIsExecuted, UNCHANGED clientVars,
         \A i \in Replica : app[i] \subseteq app'[i]
  PROVE  ResultsAreExecuted' /\ ResultIsExecuted'
<1>1. ResultsAreExecuted'
  <2>1. \A c \in Client : results[c] \subseteq Replica
    BY DEF TypeOK, ClientTypeOK
  <2> QED  BY <2>1 DEF ResultsAreExecuted, clientVars, HasExecuted
<1>2. \A c \in Client : \A n \in 1..Answered(c) : Cardinality(Executors(c, n)) > F
  BY DEF ResultIsExecuted, Executors
<1>3. \A c \in Client : Answered(c)' = Answered(c)
  BY DEF Answered, clientVars
<1>4. \A c \in Client : \A n \in 1..Answered(c)' : Cardinality(Executors(c, n)') > F
  BY <1>2, <1>3, ExecutorsGrow
<1> QED  BY <1>1, <1>4 DEF ResultIsExecuted, Executors

LEMMA InvokeResults ==
  ASSUME TypeOK, ResultsAreExecuted, ResultIsExecuted, NEW c \in Client, Invoke(c),
         UNCHANGED app
  PROVE  ResultsAreExecuted' /\ ResultIsExecuted'
<1>1. /\ \A d \in Client \ {c} : /\ pending'[d] = pending[d]
                                 /\ request_number'[d] = request_number[d]
      /\ ~pending[c] /\ pending'[c]
      /\ request_number'[c] = request_number[c] + 1 /\ request_number[c] \in Nat
      /\ results' = results
  BY PbftAssumption DEF Invoke, TypeOK, ClientTypeOK
<1>2. ResultsAreExecuted'
  <2>1. results[c] = {}
    BY <1>1 DEF ResultsAreExecuted
  <2> QED  BY <1>1, <2>1 DEF ResultsAreExecuted, HasExecuted
<1>3. \A d \in Client : Answered(d)' = Answered(d)
  BY <1>1 DEF Answered
<1>4. ResultIsExecuted'
  BY <1>3 DEF ResultIsExecuted, HasExecuted
<1> QED  BY <1>2, <1>4

LEMMA PollResults ==
  ASSUME TypeOK, RepliesAreExecuted, ResultsAreExecuted, ResultIsExecuted,
         NEW c \in Client, ClientPoll(c), UNCHANGED app
  PROVE  ResultsAreExecuted' /\ ResultIsExecuted'
<1>1. /\ request_number' = request_number
      /\ \A i, r : HasExecuted(i, r)' <=> HasExecuted(i, r)
  BY DEF ClientPoll, HasExecuted
<1>2. CASE UNCHANGED <<pending, results>>
  BY <1>1, <1>2 DEF ResultsAreExecuted, ResultIsExecuted, Answered
<1>3. CASE ReceiveReply(c)
  <2>1. PICK m \in replies :
          /\ IsAwaited(c, m)
          /\ LET heard == results[c] \cup {m.replica_id}
                 done == EnoughResults(heard)
             IN  /\ results' = [results EXCEPT ![c] = IF done THEN {} ELSE heard]
                 /\ pending' = [pending EXCEPT ![c] = ~done]
    BY <1>3 DEF ReceiveReply
  <2> DEFINE heard == results[c] \cup {m.replica_id}
             n == request_number[c]
  <2>2. /\ m.replica_id \in Replica /\ heard \in SUBSET Replica
        /\ m.client = c /\ m.request_number = n /\ pending[c]
        /\ n \in Nat
    BY <2>1, PbftAssumption DEF IsAwaited, TypeOK, NetworkTypeOK, ClientTypeOK, ReplyMessage
  <2>3. heard \subseteq Executors(c, n)
    BY <2>2 DEF RepliesAreExecuted, ResultsAreExecuted, Executors
  <2>4. /\ \A d \in Client \ {c} : pending'[d] = pending[d] /\ results'[d] = results[d]
        /\ results'[c] = IF EnoughResults(heard) THEN {} ELSE heard
        /\ pending'[c] = ~EnoughResults(heard)
    BY <2>1 DEF TypeOK, ClientTypeOK
  <2> HIDE DEF heard
  <2>5. ResultsAreExecuted'
    <3>1. ASSUME NEW d \in Client
          PROVE  /\ ~pending'[d] => results'[d] = {}
                 /\ \A i \in results'[d] :
                      HasExecuted(i, [client |-> d, request_number |-> request_number[d]])'
      <4>1. CASE d = c
        BY <1>1, <2>3, <2>4, <4>1 DEF Executors
      <4>2. CASE d # c
        BY <1>1, <2>4, <4>2 DEF ResultsAreExecuted
      <4> QED  BY <4>1, <4>2
    <3> QED  BY <3>1 DEF ResultsAreExecuted
  <2>6. ResultIsExecuted'
    <3>1. \A d \in Client : \A k \in 1..Answered(d) : Cardinality(Executors(d, k)) > F
      BY DEF ResultIsExecuted, Executors
    <3>2. ASSUME EnoughResults(heard)  PROVE Cardinality(Executors(c, n)) > F
      <4>1. Executors(c, n) \in SUBSET Replica
        BY DEF Executors
      <4>2. /\ Cardinality(heard) \in Nat /\ Cardinality(Executors(c, n)) \in Nat
            /\ Cardinality(heard) <= Cardinality(Executors(c, n))
        BY <2>2, <2>3, <4>1, LargerQuorum
      <4> QED  BY <3>2, <4>2, PbftAssumption DEF EnoughResults
    <3>3. ASSUME NEW d \in Client, NEW k \in 1..Answered(d)'
          PROVE  Cardinality(Executors(d, k)) > F
      <4>1. CASE d # c
        <5>1. Answered(d)' = Answered(d)
          BY <1>1, <2>4, <4>1 DEF Answered
        <5> QED  BY <3>1, <5>1
      <4>2. CASE d = c /\ ~EnoughResults(heard)
        <5>1. Answered(d)' = Answered(d)
          BY <1>1, <2>2, <2>4, <4>2 DEF Answered
        <5> QED  BY <3>1, <5>1
      <4>3. CASE d = c /\ EnoughResults(heard)
        <5>1. Answered(d)' = n /\ Answered(d) = n - 1
          BY <1>1, <2>2, <2>4, <4>3 DEF Answered
        <5>2. k \in 1..Answered(d) \/ k = n
          BY <2>2, <5>1
        <5> QED  BY <3>1, <3>2, <4>3, <5>2
      <4> QED  BY <4>1, <4>2, <4>3
    <3>4. \A d \in Client : \A k \in 1..Answered(d)' :
            Cardinality(Executors(d, k)') > F
      BY <1>1, <3>3 DEF Executors
    <3> QED  BY <3>4 DEF ResultIsExecuted, Executors
  <2> QED  BY <2>5, <2>6
<1> QED  BY <1>2, <1>3 DEF ClientPoll

\* The calls of every application, the client tables, the replies and what the
\* clients have collected agree with the executed log in every reachable state.
THEOREM ExecutionInvariant == Spec => []ExecutionInv
<1>1. Init => ExecutionInv
  <2> SUFFICES ASSUME Init  PROVE ExecutionInv
    OBVIOUS
  <2>1. /\ replies = {}
        /\ \A c \in Client : ~pending[c] /\ request_number[c] = 0 /\ results[c] = {}
        /\ \A i \in Replica : /\ app[i] = {} /\ execute_number[i] = 0
                              /\ \A c \in Client : client_table[i][c] = 0
    BY DEF Init, NetworkInit, ClientInit, ReplicaInit
  <2>2. \A i \in Replica : ExecutedSlots(i) = {}
    BY <2>1 DEF ExecutedSlots, Slots
  <2>3. AppIsFiltered /\ TableIsNewest
    BY <2>1, <2>2 DEF AppIsFiltered, TableIsNewest, Fresh
  <2>4. RepliesAreExecuted /\ ResultsAreExecuted /\ ResultIsExecuted
    BY <2>1 DEF RepliesAreExecuted, ResultsAreExecuted, ResultIsExecuted, Answered
  <2> QED  BY <2>3, <2>4 DEF ExecutionInv
<1>2. TypeOK /\ TypeOK' /\ AgreementInv /\ ExecutionInv /\ [Next]_vars => ExecutionInv'
  <2> SUFFICES ASSUME TypeOK, TypeOK', AgreementInv, ExecutionInv, [Next]_vars
               PROVE  ExecutionInv'
    OBVIOUS
  <2>1. Grows
    BY AgreementStep
  <2>2. ASSUME UNCHANGED <<replicaVars, replies>>
        PROVE  Keeps /\ RepliesAreExecuted' /\ UNCHANGED app
    <3>1. UNCHANGED executeVars
      BY <2>2 DEF replicaVars
    <3>2. Keeps
      BY <2>1, <3>1, QuietKeeps DEF AgreementInv, ExecutionInv
    <3>3. UNCHANGED app
      BY <3>1 DEF executeVars
    <3> QED  BY <2>2, <3>2, <3>3, RepliesStay DEF Keeps, ExecutionInv
  <2>3. ASSUME NEW c \in Client, ClientNext(c)  PROVE ExecutionInv'
    <3>1. Keeps /\ RepliesAreExecuted' /\ UNCHANGED app
      BY <2>2, <2>3 DEF ClientNext, Invoke, ClientPoll
    <3>2. ResultsAreExecuted' /\ ResultIsExecuted'
      BY <2>3, <3>1, InvokeResults, PollResults DEF ClientNext, ExecutionInv
    <3> QED  BY <3>1, <3>2 DEF Keeps, ExecutionInv
  <2>4. ASSUME NEW i \in Replica, ReplicaNext(i)  PROVE ExecutionInv'
    <3>1. Keeps /\ RepliesAreExecuted'
      BY <2>1, <2>4, ReplicaExecutes DEF ReplicaNext
    <3>2. ResultsAreExecuted' /\ ResultIsExecuted'
      BY <2>4, <3>1, ResultsStay DEF ReplicaNext, Keeps, ExecutionInv
    <3> QED  BY <3>1, <3>2 DEF Keeps, ExecutionInv
  <2>5. CASE UNCHANGED vars
    <3>1. UNCHANGED <<replicaVars, replies>> /\ UNCHANGED clientVars
      BY <2>5 DEF vars, networkVars
    <3>2. Keeps /\ RepliesAreExecuted'
      BY <2>2, <3>1
    <3>3. ResultsAreExecuted' /\ ResultIsExecuted'
      BY <3>1, <3>2, ResultsStay DEF Keeps, ExecutionInv
    <3> QED  BY <3>2, <3>3 DEF Keeps, ExecutionInv
  <2> QED  BY <2>3, <2>4, <2>5 DEF Next
<1> QED  BY <1>1, <1>2, TypeCorrect, AgreementInvariant, PTL DEF Spec

-------------------------------------------------------------------------------
(* The properties. *)

\* Two replicas that executed a batch made the same calls for it, however each
\* of them grouped it with its neighbours.
THEOREM ExecutionsAgree == Spec => []ExecutionAgreement
<1>1. TypeOK /\ AgreementInv /\ ExecutionInv => ExecutionAgreement
  <2> SUFFICES ASSUME TypeOK, AgreementInv, ExecutionInv,
                      NEW i \in Replica, NEW j \in Replica, NEW x \in app[i],
                      x.op_number <= execute_number[j]
               PROVE  x \in app[j]
    BY DEF ExecutionAgreement
  <2>1. /\ app[i] = Fresh(EmptyTable, ExecutedSlots(i))
        /\ app[j] = Fresh(EmptyTable, ExecutedSlots(j))
    BY DEF ExecutionInv, AppIsFiltered
  <2>2. /\ execute_number[i] \in Nat /\ execute_number[i] <= Len(log[i])
        /\ execute_number[j] \in Nat /\ execute_number[j] <= Len(log[j])
        /\ Len(log[i]) \in Nat /\ Len(log[j]) \in Nat
    BY ExecutedSlot, LogType DEF AgreementInv
  <2>3. \A k : k \in 1..execute_number[i] /\ k \in 1..execute_number[j]
                 => log[i][k] = log[j][k]
    <3>1. LogAgreement
      BY SentEntriesAgree DEF AgreementInv
    <3> QED  BY <2>2, <3>1 DEF LogAgreement
  <2>4. \A y : y \in ExecutedSlots(i) <=>
          /\ y \in Call
          /\ y.op_number \in 1..execute_number[i]
          /\ y.index \in 1..Len(log[i][y.op_number].requests)
          /\ y.request = log[i][y.op_number].requests[y.index]
    BY <2>2, SlotOfLog DEF ExecutedSlots, OpNumber
  <2>5. \A y : y \in ExecutedSlots(j) <=>
          /\ y \in Call
          /\ y.op_number \in 1..execute_number[j]
          /\ y.index \in 1..Len(log[j][y.op_number].requests)
          /\ y.request = log[j][y.op_number].requests[y.index]
    BY <2>2, SlotOfLog DEF ExecutedSlots, OpNumber
  <2>6. x \in ExecutedSlots(i) /\ x \in Call
    BY <2>1, <2>4 DEF Fresh
  <2>7. x \in ExecutedSlots(j)
    <3>1. x.op_number \in 1..execute_number[j] /\ x.op_number \in 1..execute_number[i]
      BY <2>2, <2>4, <2>6, CallNumber
    <3> QED  BY <2>3, <2>4, <2>5, <2>6, <3>1
  <2>8. ASSUME NEW y \in ExecutedSlots(j), Precedes(y, x)
        PROVE  y \in ExecutedSlots(i)
    <3>1. y.op_number \in 1..execute_number[j] /\ y.op_number \in 1..execute_number[i]
      <4>1. y \in Call /\ y.op_number \in 1..execute_number[j]
        BY <2>5
      <4>2. y.op_number <= x.op_number /\ x.op_number \in 1..execute_number[i]
        BY <2>4, <2>6, <2>8, <4>1, CallNumber DEF Precedes
      <4> QED  BY <2>2, <4>1, <4>2
    <3> QED  BY <2>3, <2>4, <2>5, <3>1
  <2> QED  BY <2>1, <2>7, <2>8 DEF Fresh
<1> QED  BY <1>1, TypeCorrect, AgreementInvariant, ExecutionInvariant, PTL

\* No replica's application is called twice for a request.
THEOREM ExecutedOnce == Spec => []ExactlyOnce
<1>1. TypeOK /\ AgreementInv /\ ExecutionInv => ExactlyOnce
  <2> SUFFICES ASSUME TypeOK, AgreementInv, ExecutionInv,
                      NEW i \in Replica, NEW x \in app[i], NEW y \in app[i],
                      x.request = y.request
               PROVE  x = y
    BY DEF ExactlyOnce
  <2>1. app[i] = Fresh(EmptyTable, ExecutedSlots(i))
    BY DEF ExecutionInv, AppIsFiltered
  <2>2. x \in ExecutedSlots(i) /\ y \in ExecutedSlots(i) /\ x \in Call /\ y \in Call
    BY <2>1, ExecutedSlot DEF Fresh, AgreementInv
  <2>3. x.request.request_number \in Nat
    BY <2>2, CallNumber
  <2>4. ~Precedes(x, y) /\ ~Precedes(y, x)
    BY <2>1, <2>2, <2>3 DEF Fresh
  <2>5. x.op_number = y.op_number /\ x.index = y.index
    BY <2>2, <2>4, CallNumber DEF Precedes
  <2> QED  BY <2>2, <2>5 DEF Call
<1> QED  BY <1>1, TypeCorrect, AgreementInvariant, ExecutionInvariant, PTL

\* A request whose result a client has taken was executed by more than F
\* replicas.
THEOREM ResultsExecuted == Spec => []ResultIsExecuted
<1>1. ExecutionInv => ResultIsExecuted
  BY DEF ExecutionInv
<1> QED  BY <1>1, ExecutionInvariant, PTL

-------------------------------------------------------------------------------
(* F = 0. *)

NothingIsExecuted ==
  /\ \A i \in Replica : execute_number[i] = 0 /\ app[i] = {}
  /\ \A c \in Client : Answered(c) <= 0

NoCommitIsSent == \A m \in network : m.type # "Commit"

\* Without faults to tolerate a batch is prepared when it is logged, and so
\* never becomes prepared by a Prepare.
LEMMA PrepareSendsNothing ==
  ASSUME F = 0, NEW i \in Replica, NEW m, HandlePrepare(i, m)
  PROVE  network' = network
<1> DEFINE prepares == prepare_quorums[i]
             \cup {<<m.op_number, m.request_digest, m.replica_id>>}
<1>1. \A quorums, op, digest :
        IsPrepared(log[i], quorums, op, digest) <=> op \in 1..Len(log[i])
  <2> SUFFICES ASSUME NEW quorums, NEW op, NEW digest
               PROVE  Cardinality(Voters(quorums, op, digest)) >= 2 * F
    BY DEF IsPrepared
  <2>1. Voters(quorums, op, digest) \in SUBSET Replica
    BY DEF Voters
  <2>2. Cardinality(Voters(quorums, op, digest)) \in Nat
    BY <2>1, LargerQuorum
  <2> QED  BY <2>2
<1>2. \/ Process(i, {m}, {})
      \/ /\ ~IsPrepared(log[i], prepare_quorums[i], m.op_number, m.request_digest)
         /\ IsPrepared(log[i], prepares, m.op_number, m.request_digest)
  BY DEF HandlePrepare
<1>3. Process(i, {m}, {})
  <2> HIDE DEF prepares
  <2> QED  BY <1>1, <1>2
<1> QED  BY <1>3 DEF Process

LEMMA NoCommitStays ==
  ASSUME F = 0, TypeOK, NoCommitIsSent, [Next]_vars
  PROVE  NoCommitIsSent'
<1>1. CASE UNCHANGED network
  BY <1>1 DEF NoCommitIsSent
<1>2. ASSUME NEW batch, network' = network \cup {PrePrepare(op_number + 1, batch)}
      PROVE  NoCommitIsSent'
  <2>1. PrePrepare(op_number + 1, batch).type = "PrePrepare"
    BY DEF PrePrepare
  <2> QED  BY <1>2, <2>1 DEF NoCommitIsSent
<1>3. ASSUME NEW m \in Request, HandleRequest(m)  PROVE NoCommitIsSent'
  <2>1. \/ UNCHANGED network
        \/ Process(Primary, {}, {PrePrepare(op_number + 1, Append(requests, m))})
    BY <1>3, Zenon DEF HandleRequest
  <2> QED  BY <1>1, <1>2, <2>1 DEF Process
<1>4. ASSUME NEW i \in Replica, NEW m, HandleCommit(i, m)  PROVE NoCommitIsSent'
  <2>1. \/ Process(i, {m}, {})
        \/ Process(i, {m}, {PrePrepare(op_number + 1, requests)})
    BY <1>4 DEF HandleCommit
  <2> QED  BY <1>1, <1>2, <2>1 DEF Process
<1>5. ASSUME NEW i \in Replica, NEW m, HandlePrePrepare(i, m)  PROVE NoCommitIsSent'
  <2>1. \/ Process(i, {m}, {})
        \/ \E last : LET accepted == AcceptedLog(i, m, last) IN
             Process(i, {m}, {Vote("Prepare", k, accepted[k].request_digest, i) :
                                k \in m.op_number..last})
    BY <1>5 DEF HandlePrePrepare
  <2>2. CASE Process(i, {m}, {})
    BY <1>1, <2>2 DEF Process
  <2>3. ASSUME NEW last, NEW accepted,
               Process(i, {m}, {Vote("Prepare", k, accepted[k].request_digest, i) :
                                  k \in m.op_number..last})
        PROVE  NoCommitIsSent'
    <3>1. \A n \in network' \ network : \E k :
            n = Vote("Prepare", k, accepted[k].request_digest, i)
      BY <2>3 DEF Process
    <3>2. \A n \in network' \ network : n.type = "Prepare"
      BY <3>1 DEF Vote
    <3> QED  BY <3>2 DEF NoCommitIsSent
  <2> QED  BY <2>1, <2>2, <2>3
<1>6. ASSUME NEW i \in Replica, NEW m, HandlePrepare(i, m)  PROVE NoCommitIsSent'
  BY <1>1, <1>6, PrepareSendsNothing
<1>7. ASSUME NEW i \in Replica, MainPoll(i)  PROVE NoCommitIsSent'
  BY <1>3, <1>4, <1>5, <1>6, <1>7 DEF MainPoll
<1>8. CASE UNCHANGED vars
  BY <1>1, <1>8 DEF vars, networkVars
<1>9. ASSUME NEW c \in Client, ClientNext(c)  PROVE UNCHANGED network
  BY <1>9, ClientSteps
<1> QED  BY <1>1, <1>7, <1>8, <1>9 DEF Next, ReplicaNext

\* With F = 0 no Commit is ever sent (handle_prepare returns at once, since
\* is_prepared holds of every entry of the log), so that no replica executes
\* anything and no client is answered.
THEOREM NothingIsExecutedWithoutFaults ==
  ASSUME F = 0
  PROVE  Spec => []NothingIsExecuted
<1>1. Init => NoCommitIsSent
  BY DEF Init, NetworkInit, NoCommitIsSent
<1>2. TypeOK /\ NoCommitIsSent /\ [Next]_vars => NoCommitIsSent'
  BY NoCommitStays
<1>3. TypeOK /\ AgreementInv /\ ExecutionInv /\ NoCommitIsSent => NothingIsExecuted
  <2> SUFFICES ASSUME TypeOK, AgreementInv, ExecutionInv, NoCommitIsSent
               PROVE  NothingIsExecuted
    OBVIOUS
  <2>1. ASSUME NEW i \in Replica  PROVE execute_number[i] = 0
    <3> SUFFICES ASSUME execute_number[i] # 0  PROVE FALSE
      OBVIOUS
    <3> DEFINE k == execute_number[i]
               votes == Voters(commit_quorums[i], k, log[i][k].request_digest)
    <3>1. k \in 1..execute_number[i]
      BY DEF TypeOK, ReplicaTypeOK
    <3>2. Cardinality(votes) > 2 * F
      BY <3>1 DEF AgreementInv, ExecutedIsCommitted, CommittedAt, IsReady, IsCommitted
    <3>3. votes # {}
      <4> HIDE DEF votes
      <4>1. Cardinality({}) = 0
        BY FS_EmptySet
      <4> QED  BY <3>2, <4>1
    <3>4. PICK r \in Replica : <<k, log[i][k].request_digest, r>> \in commit_quorums[i]
      BY <3>3 DEF Voters
    <3>5. Vote("Commit", k, log[i][k].request_digest, r) \in network
      BY <3>4 DEF AgreementInv, QuorumsAreSent
    <3> QED  BY <3>5 DEF NoCommitIsSent, Vote
  <2>2. ASSUME NEW i \in Replica  PROVE app[i] = {}
    <3>1. ExecutedSlots(i) = {}
      BY <2>1 DEF ExecutedSlots, Slots
    <3> QED  BY <3>1 DEF ExecutionInv, AppIsFiltered, Fresh
  <2>3. ASSUME NEW c \in Client, ~(Answered(c) <= 0)  PROVE FALSE
    <3> DEFINE executors == {i \in Replica :
                 HasExecuted(i, [client |-> c, request_number |-> 1])}
    <3>1. Answered(c) \in Int
      BY DEF Answered, TypeOK, ClientTypeOK
    <3>2. 1 \in 1..Answered(c)
      BY <2>3, <3>1
    <3>3. Cardinality(executors) > F
      BY <3>2 DEF ExecutionInv, ResultIsExecuted
    <3>4. executors = {}
      BY <2>2 DEF HasExecuted
    <3> HIDE DEF executors
    <3> QED  BY <3>3, <3>4, FS_EmptySet
  <2> QED  BY <2>1, <2>2, <2>3 DEF NothingIsExecuted
<1> QED  BY <1>1, <1>2, <1>3, TypeCorrect, AgreementInvariant, ExecutionInvariant, PTL DEF Spec

===============================================================================
