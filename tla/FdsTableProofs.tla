--------------------------- MODULE FdsTableProofs ---------------------------
(***************************************************************************)
(* Proofs about FdsTable, for any number of connections, any fd limit, any *)
(* number of further addresses and of sends.  The scan and the foreign     *)
(* thread may be anywhere when the table changes.                          *)
(***************************************************************************)
EXTENDS FdsTable, TLAPS

SlotType == [w : Conns \cup {Pipe, None}, out : BOOLEAN, revents : SUBSET Events]

(* A table in which exactly the connections of S have a slot.                *)
GoodTable(t, S) ==
    /\ t.fds \in [1..fdLimit -> SlotType]
    /\ t.count \in 1..fdLimit
    /\ t.pos \in [Conns -> 1..fdLimit \cup {NoPos}]
    /\ t.fds[1].w = Pipe
    /\ \A i \in 2..t.count : t.fds[i].w \in Conns /\ t.pos[t.fds[i].w] = i
    /\ \A i \in t.count + 1..fdLimit : t.fds[i].w = None
    /\ \A c \in S : t.pos[c] \in 2..t.count /\ t.fds[t.pos[c]].w = c
    /\ \A c \in Conns \ S : t.pos[c] = NoPos

InSet == {c \in Conns : st[c] \in InTable}

Inv == TypeOK /\ TableAgrees

(* What a function is after one of its values was replaced.                  *)
LEMMA Replaced ==
    ASSUME NEW D, NEW R, NEW f \in [D -> R], NEW a \in D, NEW b \in R, NEW g,
           g = [f EXCEPT ![a] = b]
    PROVE  g \in [D -> R] /\ g[a] = b /\ \A x \in D : x # a => g[x] = f[x]
OBVIOUS

(* A connection without a slot gets the one behind the end.                  *)
LEMMA InsertGood ==
    ASSUME fdLimit \in Nat, NEW t, NEW S \in SUBSET Conns, GoodTable(t, S),
           NEW c \in Conns \ S, t.count < fdLimit
    PROVE  GoodTable(InsertFd(t, c), S \cup {c})
<1> DEFINE n == t.count + 1
           s == Slot(c, TRUE)
           u == InsertFd(t, c)
<1>1. n \in 2..fdLimit BY DEF GoodTable
<1>2. s \in SlotType /\ s.w = c BY DEF Slot, SlotType
<1>3. /\ u.fds = [t.fds EXCEPT ![n] = s] /\ u.count = n
      /\ u.pos = [t.pos EXCEPT ![c] = n]
    BY DEF InsertFd
<1>0. /\ t.fds \in [1..fdLimit -> SlotType] /\ t.pos \in [Conns -> 1..fdLimit \cup {NoPos}]
      /\ n = t.count + 1 /\ t.count \in Nat
    BY DEF GoodTable
<1> HIDE DEF u, n, s
<1>4. u.fds \in [1..fdLimit -> SlotType] /\ u.fds[n] = s
    BY <1>0, <1>1, <1>2, <1>3, Replaced
<1>5. u.pos \in [Conns -> 1..fdLimit \cup {NoPos}] /\ u.pos[c] = n
    BY <1>0, <1>1, <1>3, Replaced
<1>6. \A i \in 1..fdLimit : i # n => u.fds[i] = t.fds[i] BY <1>0, <1>1, <1>2, <1>3, Replaced
<1>7. \A d \in Conns : d # c => u.pos[d] = t.pos[d] BY <1>0, <1>1, <1>3, Replaced
<1>8. \A i \in 2..t.count : t.fds[i].w # c BY DEF GoodTable, NoPos
<1>9. ASSUME NEW i \in 2..n PROVE u.fds[i].w \in Conns /\ u.pos[u.fds[i].w] = i
    <2>1. CASE i = n BY <1>2, <1>4, <1>5, <2>1
    <2>2. CASE i # n
        <3>1. i \in 2..t.count /\ i \in 1..fdLimit BY <1>0, <1>1, <2>2
        <3>2. t.fds[i].w \in Conns /\ t.pos[t.fds[i].w] = i BY <3>1 DEF GoodTable
        <3>3. u.fds[i] = t.fds[i] /\ t.fds[i].w # c BY <1>6, <1>8, <2>2, <3>1
        <3> QED BY <1>7, <3>2, <3>3
    <2> QED BY <2>1, <2>2
<1>10. ASSUME NEW i \in n + 1..fdLimit PROVE u.fds[i].w = None
    <2>1. i \in t.count + 1..fdLimit /\ i \in 1..fdLimit /\ i # n BY <1>0, <1>1
    <2>2. t.fds[i].w = None BY <2>1 DEF GoodTable
    <2> QED BY <1>6, <2>1, <2>2
<1>11. ASSUME NEW d \in S \cup {c} PROVE u.pos[d] \in 2..n /\ u.fds[u.pos[d]].w = d
    <2>1. CASE d = c BY <1>1, <1>2, <1>4, <1>5, <2>1
    <2>2. CASE d # c
        <3>1. d \in S /\ d \in Conns BY <2>2
        <3>2. t.pos[d] \in 2..t.count /\ t.fds[t.pos[d]].w = d BY <3>1 DEF GoodTable
        <3>3. u.pos[d] = t.pos[d] BY <1>7, <2>2, <3>1
        <3>4. t.pos[d] \in 2..n /\ t.pos[d] \in 1..fdLimit /\ t.pos[d] # n
            BY <1>0, <1>1, <3>2
        <3> QED BY <1>6, <3>2, <3>3, <3>4
    <2> QED BY <2>1, <2>2
<1>12. u.fds[1].w = Pipe BY <1>1, <1>6 DEF GoodTable
<1>13. \A d \in Conns \ (S \cup {c}) : u.pos[d] = NoPos BY <1>7 DEF GoodTable
<1>14. u.count \in 1..fdLimit BY <1>1, <1>3
<1>15. u.count = n BY <1>3
<1>16. GoodTable(u, S \cup {c})
    BY <1>0, <1>4, <1>5, <1>9, <1>10, <1>11, <1>12, <1>13, <1>14, <1>15 DEF GoodTable
<1> QED BY <1>16 DEF u

(* A connection that goes leaves a table of the others, the last one of      *)
(* which has taken its slot.                                                 *)
LEMMA RemoveGood ==
    ASSUME fdLimit \in Nat, NEW t, NEW S \in SUBSET Conns, GoodTable(t, S), NEW c \in Conns
    PROVE  GoodTable(RemoveFd(t, c), S \ {c})
<1>1. CASE c \notin S
    <2>1. t.pos[c] = NoPos BY <1>1 DEF GoodTable
    <2>2. RemoveFd(t, c) = t BY <2>1 DEF RemoveFd
    <2>3. S \ {c} = S BY <1>1
    <2> QED BY <2>2, <2>3
<1>2. CASE c \in S
    <2> DEFINE m == t.pos[c]
               n == t.count
               e == t.fds[n].w
               u == RemoveFd(t, c)
    <2>1. m \in 2..n /\ n \in 2..fdLimit /\ t.fds[m].w = c /\ m # NoPos
        BY <1>2 DEF GoodTable, NoPos
    <2>2. e \in Conns /\ t.pos[e] = n BY <2>1 DEF GoodTable
    <2>3. /\ u.fds = [[t.fds EXCEPT ![m] = t.fds[n]] EXCEPT ![n] = Gone(@)]
          /\ u.count = n - 1
          /\ u.pos = [t.pos EXCEPT ![e] = m, ![c] = NoPos]
        BY <2>1 DEF RemoveFd
    <2> HIDE DEF u
    <2>4. t.fds \in [1..fdLimit -> SlotType] BY DEF GoodTable
    <2>5. /\ \A s \in SlotType : Gone(s) \in SlotType /\ Gone(s).w = None
        BY DEF Gone, SlotType
    <2>a. PICK v : v = [t.fds EXCEPT ![m] = t.fds[n]] OBVIOUS
    <2>b. m \in 1..fdLimit /\ n \in 1..fdLimit BY <2>1
    <2>c. /\ v \in [1..fdLimit -> SlotType] /\ v[m] = t.fds[n]
          /\ \A i \in 1..fdLimit : i # m => v[i] = t.fds[i]
        BY <2>4, <2>a, <2>b
    <2>d. u.fds = [v EXCEPT ![n] = Gone(v[n])] BY <2>3, <2>a
    <2>e. Gone(v[n]) \in SlotType /\ Gone(v[n]).w = None BY <2>5, <2>b, <2>c
    <2>f. /\ u.fds \in [1..fdLimit -> SlotType] /\ u.fds[n] = Gone(v[n])
          /\ \A i \in 1..fdLimit : i # n => u.fds[i] = v[i]
        BY <2>b, <2>c, <2>d, <2>e, Replaced
    <2>6. u.fds \in [1..fdLimit -> SlotType] BY <2>f
    <2>7. /\ u.fds[n].w = None
          /\ m # n => u.fds[m].w = e
          /\ \A i \in 1..fdLimit : i # m /\ i # n => u.fds[i] = t.fds[i]
        BY <2>b, <2>c, <2>e, <2>f
    <2>8. /\ u.pos[c] = NoPos /\ (e # c => u.pos[e] = m)
          /\ \A d \in Conns : d # c /\ d # e => u.pos[d] = t.pos[d]
        BY <2>1, <2>2, <2>3 DEF GoodTable
    <2>9. e = c <=> m = n BY <2>1, <2>2
    <2>10. u.pos \in [Conns -> 1..fdLimit \cup {NoPos}] BY <2>1, <2>3 DEF GoodTable
    <2>11. u.count \in 1..fdLimit BY <2>1, <2>3
    <2>12. u.fds[1].w = Pipe BY <2>1, <2>7 DEF GoodTable
    <2>13. ASSUME NEW i \in 2..u.count PROVE u.fds[i].w \in Conns /\ u.pos[u.fds[i].w] = i
        <3>1. i \in 2..n - 1 BY <2>3
        <3>2. CASE i = m BY <2>1, <2>2, <2>7, <2>8, <2>9, <3>1, <3>2
        <3>3. CASE i # m
            <4>1. u.fds[i] = t.fds[i] BY <2>1, <2>7, <3>1, <3>3
            <4>2. t.fds[i].w \in Conns /\ t.pos[t.fds[i].w] = i BY <2>1, <3>1 DEF GoodTable
            <4>3. t.fds[i].w # c /\ t.fds[i].w # e BY <2>1, <2>2, <3>1, <3>3, <4>2
            <4> QED BY <2>8, <4>1, <4>2, <4>3
        <3> QED BY <3>2, <3>3
    <2>14. ASSUME NEW i \in u.count + 1..fdLimit PROVE u.fds[i].w = None
        <3>1. i \in n..fdLimit BY <2>1, <2>3
        <3>2. CASE i = n BY <2>7, <3>2
        <3>3. CASE i # n
            <4>1. u.fds[i] = t.fds[i] BY <2>1, <2>7, <3>1, <3>3
            <4> QED BY <2>1, <3>1, <3>3, <4>1 DEF GoodTable
        <3> QED BY <3>2, <3>3
    <2>15. ASSUME NEW d \in S \ {c} PROVE u.pos[d] \in 2..u.count /\ u.fds[u.pos[d]].w = d
        <3>0. d \in Conns /\ t.pos[d] \in 2..n /\ t.fds[t.pos[d]].w = d BY DEF GoodTable
        <3>1. CASE d = e
            <4>1. e # c /\ m # n BY <2>9, <3>1
            <4>2. u.pos[d] = m /\ u.fds[m].w = d BY <2>7, <2>8, <3>1, <4>1
            <4> QED BY <2>1, <2>3, <4>1, <4>2
        <3>2. CASE d # e
            <4>1. u.pos[d] = t.pos[d] BY <2>8, <3>0, <3>2
            <4>2. t.pos[d] # n /\ t.pos[d] # m BY <2>1, <3>0, <3>2
            <4>3. u.fds[t.pos[d]] = t.fds[t.pos[d]] BY <2>1, <2>7, <3>0, <4>2
            <4> QED BY <2>1, <2>3, <3>0, <4>1, <4>2, <4>3
        <3> QED BY <3>1, <3>2
    <2>16. ASSUME NEW d \in Conns \ (S \ {c}) PROVE u.pos[d] = NoPos
        <3>1. CASE d = c BY <2>8, <3>1
        <3>2. CASE d # c
            <4>1. t.pos[d] = NoPos BY <3>2 DEF GoodTable
            <4>2. d # e BY <2>1, <2>2, <4>1 DEF NoPos
            <4> QED BY <2>8, <3>2, <4>1, <4>2
        <3> QED BY <3>1, <3>2
    <2>17. GoodTable(u, S \ {c})
        BY <2>6, <2>10, <2>11, <2>12, <2>13, <2>14, <2>15, <2>16 DEF GoodTable
    <2> QED BY <2>17 DEF u
<1> QED BY <1>1, <1>2

(* The table of a state that meets the invariant is a good one.              *)
LEMMA InvGood == Inv => GoodTable(Table, InSet) /\ fdLimit \in Nat /\ InSet \in SUBSET Conns
<1> SUFFICES ASSUME Inv PROVE GoodTable(Table, InSet) /\ fdLimit \in Nat /\ InSet \in SUBSET Conns
    OBVIOUS
<1>1. fdLimit \in Nat BY TableAssumption DEF Inv, TypeOK, TypeTable
<1>2. Table.fds = fds /\ Table.count = count /\ Table.pos = pos BY DEF Table
<1>3. TypeTable /\ TableAgrees BY DEF Inv, TypeOK
<1> HIDE DEF Table
<1>4. GoodTable(Table, InSet)
    BY <1>1, <1>2, <1>3 DEF GoodTable, InSet, TypeTable, TableAgrees, SlotType
<1> QED BY <1>1, <1>4 DEF InSet

(* A step to a good table of the connections that have a slot then.          *)
LEMMA GoodNext ==
    ASSUME TypeTable, UNCHANGED fdLimit, NEW t, SetTable(t), NEW S, GoodTable(t, S), S = InSet'
    PROVE  TypeTable' /\ TableAgrees'
<1>1. fds' = t.fds /\ count' = t.count /\ pos' = t.pos BY DEF SetTable
<1>2. TypeTable' BY <1>1 DEF GoodTable, TypeTable, SlotType
<1>3. TableAgrees' BY <1>1 DEF GoodTable, TableAgrees, InSet
<1> QED BY <1>2, <1>3

(* A step that moves nobody in the table.                                    *)
LEMMA StayNext ==
    ASSUME TypeTable, TableAgrees, UNCHANGED <<fdLimit, count, pos>>,
           fds' \in [1..fdLimit -> SlotType],
           \A i \in 1..fdLimit : fds'[i].w = fds[i].w, InSet' = InSet
    PROVE  TypeTable' /\ TableAgrees'
<1>1. TypeTable' BY DEF TypeTable, SlotType
<1>2. fdLimit \in Nat /\ count \in 1..fdLimit BY TableAssumption DEF TypeTable
<1>3. \A c \in Conns : st'[c] \in InTable <=> st[c] \in InTable BY DEF InSet
<1>4. fds'[1].w = Pipe BY <1>2 DEF TableAgrees
<1>5. \A i \in 2..count : fds'[i].w \in Conns /\ pos[fds'[i].w] = i BY <1>2 DEF TableAgrees
<1>6. \A i \in count + 1..fdLimit : fds'[i].w = None BY <1>2 DEF TableAgrees
<1>7. \A c \in Conns : IF st'[c] \in InTable THEN pos[c] \in 2..count /\ fds'[pos[c]].w = c
                                             ELSE pos[c] = NoPos
    BY <1>2, <1>3 DEF TableAgrees
<1>8. TableAgrees' BY <1>4, <1>5, <1>6, <1>7 DEF TableAgrees
<1> QED BY <1>1, <1>8

States == InTable \cup {"idle", "resolving", "closed"}

(* What Enter does to the set of connections with a slot.                    *)
LEMMA EnterStep ==
    ASSUME TypeConns, NEW c \in Conns, NEW s \in States, Enter(c, s),
           waiting' \subseteq Conns, strayed' \subseteq Conns
    PROVE  /\ TypeConns'
           /\ s \in InTable => InSet' = (InSet \ {c}) \cup {c}
           /\ s \notin InTable => InSet' = InSet \ {c}
<1>1. /\ st' = [st EXCEPT ![c] = s] /\ net' = [net EXCEPT ![c] = "none"]
      /\ reported' = [reported EXCEPT ![c] = {}]
    BY DEF Enter
<1>2. TypeConns' BY <1>1 DEF TypeConns, States
<1>3. \A d \in Conns : st'[d] = IF d = c THEN s ELSE st[d] BY <1>1 DEF TypeConns
<1> QED BY <1>2, <1>3 DEF InSet

(* A close, with whatever table it finds c in.                             *)
LEMMA CloseStep ==
    ASSUME Inv, NEW c \in Conns, UNCHANGED fdLimit, NEW t, NEW S \in SUBSET Conns,
           GoodTable(t, S), S \ {c} = InSet \ {c}, Close(t, c)
    PROVE  TypeTable' /\ TableAgrees' /\ TypeConns'
<1>1. /\ SetTable(RemoveFd(t, c)) /\ Enter(c, "closed")
      /\ waiting' = waiting \ {c} /\ strayed' = strayed \ {c}
    BY DEF Close
<1>2. TypeTable /\ TypeConns /\ fdLimit \in Nat BY InvGood DEF Inv, TypeOK
<1>3. waiting' \subseteq Conns /\ strayed' \subseteq Conns BY <1>1, <1>2 DEF TypeConns
<1>4. "closed" \in States /\ "closed" \notin InTable BY DEF States, InTable
<1>5. TypeConns' /\ InSet' = InSet \ {c} BY <1>1, <1>2, <1>3, <1>4, EnterStep
<1>6. GoodTable(RemoveFd(t, c), S \ {c}) BY <1>2, RemoveGood
<1> QED BY <1>1, <1>2, <1>5, <1>6, GoodNext

(* A connection that waits for its lookup has no slot.                     *)
LEMMA ResolveStep ==
    ASSUME Inv, NEW c \in Conns, UNCHANGED fdLimit, NEW t, GoodTable(t, InSet \ {c}),
           Resolve(t, c)
    PROVE  TypeTable' /\ TableAgrees' /\ TypeConns'
<1>1. SetTable(t) /\ Enter(c, "resolving") /\ UNCHANGED <<waiting, strayed>> BY DEF Resolve
<1>2. TypeTable /\ TypeConns BY DEF Inv, TypeOK
<1>3. waiting' \subseteq Conns /\ strayed' \subseteq Conns BY <1>1, <1>2 DEF TypeConns
<1>4. "resolving" \in States /\ "resolving" \notin InTable BY DEF States, InTable
<1>5. TypeConns' /\ InSet' = InSet \ {c} BY <1>1, <1>2, <1>3, <1>4, EnterStep
<1> QED BY <1>1, <1>2, <1>5, GoodNext

(* A connect attempt that got its slot.                                    *)
LEMMA ConnectingStep ==
    ASSUME Inv, NEW c \in Conns, UNCHANGED <<fdLimit, waiting, strayed>>, NEW t,
           GoodTable(t, (InSet \ {c}) \cup {c}), SetTable(t), Enter(c, "connecting")
    PROVE  TypeTable' /\ TableAgrees' /\ TypeConns'
<1>1. TypeTable /\ TypeConns BY DEF Inv, TypeOK
<1>2. waiting' \subseteq Conns /\ strayed' \subseteq Conns BY <1>1 DEF TypeConns
<1>3. "connecting" \in States /\ "connecting" \in InTable BY DEF States, InTable
<1>4. TypeConns' /\ InSet' = (InSet \ {c}) \cup {c} BY <1>1, <1>2, <1>3, EnterStep
<1> QED BY <1>1, <1>4, GoodNext

(* A connect attempt, with a slot or none left.                            *)
LEMMA AttemptStep ==
    ASSUME Inv, NEW c \in Conns, UNCHANGED fdLimit, NEW t, GoodTable(t, InSet \ {c}),
           Attempt(t, c)
    PROVE  TypeTable' /\ TableAgrees' /\ TypeConns'
<1>0. InSet \ {c} \in SUBSET Conns /\ c \notin InSet \ {c} BY InvGood
<1>1. CASE Full(t)
    <2>1. Close(t, c) BY <1>1 DEF Attempt
    <2> QED BY <1>0, <2>1, CloseStep
<1>2. CASE ~Full(t)
    <2>1. SetTable(InsertFd(t, c)) /\ Enter(c, "connecting") /\ UNCHANGED <<waiting, strayed>>
        BY <1>2 DEF Attempt
    <2>2. fdLimit \in Nat /\ t.count < fdLimit BY <1>2, InvGood DEF Full, GoodTable
    <2>3. GoodTable(InsertFd(t, c), (InSet \ {c}) \cup {c}) BY <1>0, <2>2, InsertGood
    <2> QED BY <2>1, <2>3, ConnectingStep
<1> QED BY <1>1, <1>2

(* Changes of events or revents in one slot move nobody.                     *)
LEMMA SlotStep ==
    ASSUME TypeTable, NEW i \in 1..fdLimit, NEW s \in SlotType, s.w = fds[i].w,
           fds' = [fds EXCEPT ![i] = s]
    PROVE  fds' \in [1..fdLimit -> SlotType] /\ \A j \in 1..fdLimit : fds'[j].w = fds[j].w
<1>1. fds \in [1..fdLimit -> SlotType] BY DEF TypeTable, SlotType
<1> QED BY <1>1, Replaced

(* Asking for POLLOUT, or no longer, moves nobody.                         *)
LEMMA OutStep ==
    ASSUME TypeTable, NEW i \in 1..fdLimit, NEW b \in BOOLEAN,
           fds' = [fds EXCEPT ![i].out = b]
    PROVE  fds' \in [1..fdLimit -> SlotType] /\ \A j \in 1..fdLimit : fds'[j].w = fds[j].w
<1>1. fds[i] \in SlotType BY DEF TypeTable, SlotType
<1>2. [fds[i] EXCEPT !.out = b] \in SlotType /\ [fds[i] EXCEPT !.out = b].w = fds[i].w
    BY <1>1 DEF SlotType
<1>3. fds' = [fds EXCEPT ![i] = [fds[i] EXCEPT !.out = b]] OBVIOUS
<1> QED BY <1>2, <1>3, SlotStep

(* Clearing revents moves nobody.                                          *)
LEMMA ReventsStep ==
    ASSUME TypeTable, NEW i \in 1..fdLimit, fds' = [fds EXCEPT ![i].revents = {}]
    PROVE  fds' \in [1..fdLimit -> SlotType] /\ \A j \in 1..fdLimit : fds'[j].w = fds[j].w
<1>1. fds[i] \in SlotType BY DEF TypeTable, SlotType
<1>2. [fds[i] EXCEPT !.revents = {}] \in SlotType /\ [fds[i] EXCEPT !.revents = {}].w = fds[i].w
    BY <1>1 DEF SlotType
<1>3. fds' = [fds EXCEPT ![i] = [fds[i] EXCEPT !.revents = {}]] OBVIOUS
<1> QED BY <1>2, <1>3, SlotStep

(* A connection that has a slot goes from one such state to another.         *)
LEMMA InTableStep ==
    ASSUME TypeConns, NEW c \in InSet, NEW s \in InTable, st' = [st EXCEPT ![c] = s]
    PROVE  InSet' = InSet /\ st' \in [Conns -> States]
<1>1. c \in Conns /\ st[c] \in InTable BY DEF InSet
<1>2. st' \in [Conns -> States] BY <1>1 DEF TypeConns, States
<1>3. \A d \in Conns : st'[d] = IF d = c THEN s ELSE st[d] BY <1>1 DEF TypeConns
<1> QED BY <1>1, <1>2, <1>3 DEF InSet

(* A close that is deferred keeps the slot.                                *)
LEMMA DeferStep ==
    ASSUME Inv, NEW c \in InSet, UNCHANGED fdLimit, Defer(c)
    PROVE  TypeTable' /\ TableAgrees' /\ TypeConns'
<1>1. /\ st' = [st EXCEPT ![c] = "closing"] /\ fds' = [fds EXCEPT ![pos[c]].out = TRUE]
      /\ UNCHANGED <<count, pos, net, waiting, reported, strayed>>
    BY DEF Defer
<1>2. TypeTable /\ TableAgrees /\ TypeConns BY DEF Inv, TypeOK
<1>3. pos[c] \in 1..fdLimit BY <1>2, InvGood DEF InSet, TypeTable, TableAgrees
<1>4. fds' \in [1..fdLimit -> SlotType] /\ \A j \in 1..fdLimit : fds'[j].w = fds[j].w
    BY <1>1, <1>2, <1>3, OutStep
<1>5. InSet' = InSet /\ st' \in [Conns -> States]
    BY <1>1, <1>2, InTableStep DEF InTable
<1>6. TypeConns' BY <1>1, <1>2, <1>5 DEF TypeConns, States
<1>7. TypeTable' /\ TableAgrees' BY <1>1, <1>2, <1>4, <1>5, StayNext
<1> QED BY <1>6, <1>7

(* The timers.                                                               *)
LEMMA TimerStep ==
    ASSUME Inv, NEW c \in Conns,
           TimerClose(c) \/ TimerAttempt(c) \/ TimerLookup(c) \/ ValidityPing(c)
    PROVE  TypeTable' /\ TableAgrees' /\ TypeConns'
<1>0. /\ TypeTable /\ TableAgrees /\ TypeConns
      /\ GoodTable(Table, InSet) /\ fdLimit \in Nat /\ InSet \in SUBSET Conns
    BY InvGood DEF Inv, TypeOK
<1>1. CASE TimerClose(c)
    <2>1. CASE Close(Table, c)
        <3>1. UNCHANGED fdLimit BY <1>1 DEF TimerClose, Rest
        <3> QED BY <1>0, <2>1, <3>1, CloseStep
    <2>2. CASE st[c] = "established" /\ Defer(c)
        <3>1. UNCHANGED fdLimit BY <1>1 DEF TimerClose, Rest
        <3>2. c \in InSet BY <2>2 DEF InSet, InTable
        <3> QED BY <2>2, <3>1, <3>2, DeferStep
    <2> QED BY <1>1, <2>1, <2>2 DEF TimerClose
<1>2. CASE TimerAttempt(c)
    <2>0. st[c] = "connecting" /\ UNCHANGED fdLimit BY <1>2 DEF TimerAttempt, Rest
    <2>1. CASE Attempt(RemoveFd(Table, c), c)
        <3>1. GoodTable(RemoveFd(Table, c), InSet \ {c}) BY <1>0, RemoveGood
        <3> QED BY <2>0, <2>1, <3>1, AttemptStep
    <2>2. CASE /\ st' = [st EXCEPT ![c] = "handshake"]
               /\ fds' = [fds EXCEPT ![pos[c]].out = FALSE]
               /\ UNCHANGED <<count, pos, net, waiting, reported, strayed>>
        <3>1. c \in InSet BY <2>0 DEF InSet, InTable
        <3>2. pos[c] \in 1..fdLimit BY <1>0, <3>1 DEF InSet, TypeTable, TableAgrees
        <3>3. fds' \in [1..fdLimit -> SlotType] /\ \A j \in 1..fdLimit : fds'[j].w = fds[j].w
            BY <1>0, <2>2, <3>2, OutStep
        <3>4. InSet' = InSet /\ st' \in [Conns -> States]
            BY <1>0, <2>2, <3>1, InTableStep DEF InTable
        <3>5. TypeConns' BY <1>0, <2>2, <3>4 DEF TypeConns, States
        <3>6. TypeTable' /\ TableAgrees' BY <1>0, <2>0, <2>2, <3>3, <3>4, StayNext
        <3> QED BY <3>5, <3>6
    <2> QED BY <1>2, <2>1, <2>2 DEF TimerAttempt
<1>3. CASE TimerLookup(c)
    <2>1. st[c] = "resolving" /\ UNCHANGED fdLimit /\ Attempt(Table, c)
        BY <1>3 DEF TimerLookup, Rest
    <2>2. InSet \ {c} = InSet BY <2>1 DEF InSet, InTable
    <2> QED BY <1>0, <2>1, <2>2, AttemptStep
<1>4. CASE ValidityPing(c)
    <2>1. /\ st[c] = "established" /\ fds' = [fds EXCEPT ![pos[c]].out = TRUE]
          /\ strayed' = strayed \ {c}
          /\ UNCHANGED <<fdLimit, count, pos, st, net, waiting, reported>>
        BY <1>4 DEF ValidityPing, Rest
    <2>2. c \in InSet /\ InSet' = InSet BY <2>1 DEF InSet, InTable
    <2>3. pos[c] \in 1..fdLimit BY <1>0, <2>2 DEF InSet, TypeTable, TableAgrees
    <2>4. fds' \in [1..fdLimit -> SlotType] /\ \A j \in 1..fdLimit : fds'[j].w = fds[j].w
        BY <1>0, <2>1, <2>3, OutStep
    <2>5. TypeConns' BY <1>0, <2>1 DEF TypeConns
    <2>6. TypeTable' /\ TableAgrees' BY <1>0, <2>1, <2>2, <2>4, StayNext
    <2> QED BY <2>5, <2>6
<1> QED BY <1>1, <1>2, <1>3, <1>4

(* Clearing the revents of a slot keeps a table good.                        *)
LEMMA HandledGood ==
    ASSUME fdLimit \in Nat, NEW f, NEW n, NEW p, NEW S, NEW i \in 1..fdLimit,
           GoodTable([fds |-> f, count |-> n, pos |-> p], S)
    PROVE  GoodTable([[fds |-> f, count |-> n, pos |-> p] EXCEPT !.fds[i].revents = {}], S)
<1> DEFINE t == [fds |-> f, count |-> n, pos |-> p]
           u == [t EXCEPT !.fds[i].revents = {}]
           s == [f[i] EXCEPT !.revents = {}]
<1>1. t.fds = f /\ t.count = n /\ t.pos = p OBVIOUS
<1>2. u.fds = [f EXCEPT ![i] = s] /\ u.count = n /\ u.pos = p OBVIOUS
<1>3. GoodTable(t, S) OBVIOUS
<1> HIDE DEF t, u
<1>4. f \in [1..fdLimit -> SlotType] BY <1>1, <1>3 DEF GoodTable
<1>5. f[i] \in SlotType BY <1>4
<1>6. s \in SlotType /\ s.w = f[i].w BY <1>5 DEF SlotType
<1> HIDE DEF s
<1>7. u.fds \in [1..fdLimit -> SlotType] /\ \A j \in 1..fdLimit : u.fds[j].w = f[j].w
    BY <1>2, <1>4, <1>6, Replaced
<1>8. GoodTable(u, S) BY <1>1, <1>2, <1>3, <1>7 DEF GoodTable
<1> QED BY <1>8 DEF u, t

(* The scan, where a connection may go, and come back, before its caller is   *)
(* done with the slot.                                                       *)
LEMMA AttemptInScan ==
    ASSUME Inv, NEW i \in 1..fdLimit, ServeAttempt(i)
    PROVE  TypeTable' /\ TableAgrees' /\ TypeConns'
<1> DEFINE c == fds[i].w
           gone == RemoveFd(Table, c)
           back == InsertFd(gone, c)
           H(t) == [t EXCEPT !.fds[i].revents = {}]
<1>0. /\ TypeTable /\ TableAgrees /\ TypeConns
      /\ GoodTable(Table, InSet) /\ fdLimit \in Nat /\ InSet \in SUBSET Conns
    BY InvGood DEF Inv, TypeOK
<1>1. /\ c \in Conns /\ st[c] \in {"connecting", "handshake"} /\ UNCHANGED fdLimit
      /\ \/ Close(back, c)
         \/ UNCHANGED <<waiting, strayed>> /\ SetTable(H(back)) /\ Enter(c, "connecting")
         \/ Resolve(H(gone), c)
    BY DEF ServeAttempt, Served, Kept
<1>2. c \in InSet BY <1>1 DEF InSet, InTable
<1> HIDE DEF c
<1>3. GoodTable(gone, InSet \ {c}) BY <1>0, <1>1, RemoveGood
<1>4. Table.pos[c] # NoPos BY <1>0, <1>2 DEF GoodTable, NoPos
<1>5. gone.count < fdLimit
    <2>1. gone.count = Table.count - 1 BY <1>4 DEF RemoveFd
    <2> QED BY <1>0, <2>1 DEF GoodTable
<1>6. InSet \ {c} \in SUBSET Conns /\ c \in Conns \ (InSet \ {c}) BY <1>0, <1>1
<1>7. GoodTable(back, (InSet \ {c}) \cup {c})
    <2> HIDE DEF gone
    <2> QED BY <1>0, <1>3, <1>5, <1>6, InsertGood
<1>8. GoodTable(H(back), (InSet \ {c}) \cup {c})
    <2> HIDE DEF gone
    <2> QED BY <1>0, <1>7, HandledGood DEF InsertFd
<1>9. GoodTable(H(gone), InSet \ {c}) BY <1>0, <1>3, <1>4, HandledGood DEF RemoveFd
<1>10. CASE Close(back, c)
    <2> HIDE DEF back
    <2>1. (InSet \ {c}) \cup {c} \in SUBSET Conns
          /\ ((InSet \ {c}) \cup {c}) \ {c} = InSet \ {c}
        BY <1>0, <1>1
    <2> QED BY <1>1, <1>7, <1>10, <2>1, CloseStep
<1>11. CASE UNCHANGED <<waiting, strayed>> /\ SetTable(H(back)) /\ Enter(c, "connecting")
    <2> HIDE DEF H
    <2> QED BY <1>1, <1>8, <1>11, ConnectingStep
<1>12. CASE Resolve(H(gone), c)
    <2> HIDE DEF H
    <2> QED BY <1>1, <1>9, <1>12, ResolveStep
<1> QED BY <1>1, <1>10, <1>11, <1>12

(* The other slots of the scan.                                              *)
LEMMA ServeStep ==
    ASSUME Inv, NEW i \in 1..fdLimit,
           \/ ServePipe(i) \/ ServeClose(i) \/ ServeDeferred(i) \/ ServeConnected(i)
           \/ ServeHandled(i)
    PROVE  TypeTable' /\ TableAgrees' /\ TypeConns'
<1>0. /\ TypeTable /\ TableAgrees /\ TypeConns
      /\ GoodTable(Table, InSet) /\ fdLimit \in Nat /\ InSet \in SUBSET Conns
    BY InvGood DEF Inv, TypeOK
<1>1. CASE ServePipe(i)
    <2>1. /\ fds' = [fds EXCEPT ![i].revents = {}]
          /\ UNCHANGED <<fdLimit, count, pos, st, net, waiting, reported, strayed>>
        BY <1>1 DEF ServePipe, connVars, Kept
    <2>2. fds' \in [1..fdLimit -> SlotType] /\ \A j \in 1..fdLimit : fds'[j].w = fds[j].w
        BY <1>0, <2>1, ReventsStep
    <2>3. InSet' = InSet /\ TypeConns' BY <1>0, <2>1 DEF InSet, TypeConns
    <2> QED BY <1>0, <2>1, <2>2, <2>3, StayNext
<1>2. CASE ServeClose(i)
    <2>1. fds[i].w \in Conns /\ Close(Table, fds[i].w) /\ UNCHANGED fdLimit
        BY <1>2 DEF ServeClose, Served, Kept
    <2> QED BY <1>0, <2>1, CloseStep
<1>3. CASE ServeDeferred(i)
    <2>1. /\ fds[i].w \in Conns /\ st[fds[i].w] = "established" /\ Defer(fds[i].w)
          /\ UNCHANGED fdLimit
        BY <1>3 DEF ServeDeferred, Served, Kept
    <2>2. fds[i].w \in InSet BY <2>1 DEF InSet, InTable
    <2> QED BY <2>1, <2>2, DeferStep
<1>4. CASE ServeConnected(i)
    <2> DEFINE c == fds[i].w
               s == Slot(c, FALSE)
    <2>1. /\ c \in Conns /\ st[c] = "connecting" /\ st' = [st EXCEPT ![c] = "handshake"]
          /\ fds' = [fds EXCEPT ![i] = s]
          /\ reported' = [reported EXCEPT ![c] = {}]
          /\ UNCHANGED <<fdLimit, count, pos, net, waiting, strayed>>
        BY <1>4 DEF ServeConnected, Served, Kept
    <2>2. s \in SlotType /\ s.w = fds[i].w BY <2>1 DEF Slot, SlotType
    <2>3. c \in InSet BY <2>1 DEF InSet, InTable
    <2> HIDE DEF s, c
    <2>4. fds' \in [1..fdLimit -> SlotType] /\ \A j \in 1..fdLimit : fds'[j].w = fds[j].w
        BY <1>0, <2>1, <2>2, SlotStep
    <2>5. InSet' = InSet /\ st' \in [Conns -> States]
        BY <1>0, <2>1, <2>3, InTableStep DEF InTable
    <2>6. TypeConns' BY <1>0, <2>1, <2>5 DEF TypeConns, States
    <2> QED BY <1>0, <2>1, <2>4, <2>5, <2>6, StayNext
<1>5. CASE ServeHandled(i)
    <2> DEFINE c == fds[i].w
               b == IF "OUT" \in fds[i].revents THEN waiting' # waiting ELSE fds[i].out
               s == Slot(c, b)
    <2>1. /\ c \in Conns /\ st[c] \in {"handshake", "established", "closing"}
          /\ st' = st \/ st' = [st EXCEPT ![c] = "established"]
          /\ UNCHANGED <<fdLimit, count, pos>>
        BY <1>5 DEF ServeHandled, Served, Kept
    <2>2. fds' = [fds EXCEPT ![i] = s] BY <1>0, <1>5 DEF ServeHandled, TypeTable
    <2>3. reported' = [reported EXCEPT ![c] = {}] BY <1>5 DEF ServeHandled
    <2>4. waiting' \in SUBSET Conns /\ strayed' \in SUBSET Conns
        BY <1>0, <1>5 DEF ServeHandled, TypeConns
    <2>5. net' \in [Conns -> {"none", "quiet", "data", "buffered", "hup"}]
        <3>1. PICK m \in {"quiet", "buffered", net[c]} : net' = [net EXCEPT ![c] = m]
            BY <1>5 DEF ServeHandled
        <3> QED BY <1>0, <2>1, <3>1 DEF TypeConns
    <2>6. b \in BOOLEAN BY <1>0 DEF TypeTable
    <2>7. c \in InSet BY <2>1 DEF InSet, InTable
    <2> HIDE DEF b
    <2>8. s \in SlotType /\ s.w = fds[i].w BY <2>1, <2>6 DEF Slot, SlotType
    <2> HIDE DEF s, c
    <2>9. fds' \in [1..fdLimit -> SlotType] /\ \A j \in 1..fdLimit : fds'[j].w = fds[j].w
        BY <1>0, <2>2, <2>8, SlotStep
    <2>10. InSet' = InSet /\ st' \in [Conns -> States]
        <3>1. CASE st' = st BY <1>0, <3>1 DEF InSet, TypeConns, States
        <3>2. CASE st' = [st EXCEPT ![c] = "established"]
            BY <1>0, <2>7, <3>2, InTableStep DEF InTable
        <3> QED BY <2>1, <3>1, <3>2
    <2>11. TypeConns' BY <1>0, <2>1, <2>3, <2>4, <2>5, <2>10 DEF TypeConns, States
    <2> QED BY <1>0, <2>1, <2>9, <2>10, <2>11, StayNext
<1> QED BY <1>1, <1>2, <1>3, <1>4, <1>5

(* poll() writes every slot and moves nobody.                                *)
LEMMA PollStep == ASSUME Inv, PollReturn PROVE TypeTable' /\ TableAgrees' /\ TypeConns'
<1>0. /\ TypeTable /\ TableAgrees /\ TypeConns /\ fdLimit \in Nat
    BY InvGood DEF Inv, TypeOK
<1>1. PICK withIn \in SUBSET Conns :
        LET r == [c \in Conns |-> IF pos[c] = NoPos THEN {}
                                  ELSE Ready(c, c \in withIn) \cup FakePollin(c)]
        IN  /\ reported' = r
            /\ fds' = [i \in 1..fdLimit |->
                  IF i > count THEN Slot(None, FALSE)
                  ELSE [w |-> fds[i].w, out |-> fds[i].out \/ Listed(i),
                        revents |-> IF fds[i].w = Pipe THEN {e \in {"IN"} : list # <<>>}
                                                       ELSE r[fds[i].w]]]
    BY DEF PollReturn
<1> DEFINE r == [c \in Conns |-> IF pos[c] = NoPos THEN {}
                                 ELSE Ready(c, c \in withIn) \cup FakePollin(c)]
           rev(i) == IF fds[i].w = Pipe THEN {e \in {"IN"} : list # <<>>} ELSE r[fds[i].w]
           o(i) == fds[i].out \/ Listed(i)
           g(i) == [w |-> fds[i].w, out |-> o(i), revents |-> rev(i)]
<1>2. \A c \in Conns : r[c] \subseteq Events
    <2>1. \A c \in Conns : Ready(c, c \in withIn) \subseteq Events BY DEF Ready
    <2>2. \A c \in Conns : FakePollin(c) \subseteq Events BY DEF FakePollin, Events
    <2> QED BY <2>1, <2>2
<1>3. reported' \in [Conns -> SUBSET Events]
    <2>1. reported' = r BY <1>1
    <2> QED BY <1>2, <2>1
<1>4. \A i \in 1..count : rev(i) \in SUBSET Events
    <2> TAKE i \in 1..count
    <2> HIDE DEF r
    <2>1. CASE fds[i].w # Pipe
        <3>1. fds[i].w \in Conns BY <1>0, <2>1 DEF TableAgrees, TypeTable
        <3>2. rev(i) = r[fds[i].w] BY <2>1
        <3> QED BY <1>2, <3>1, <3>2
    <2>2. CASE fds[i].w = Pipe
        <3>1. rev(i) = {e \in {"IN"} : list # <<>>} BY <2>2
        <3> QED BY <3>1 DEF Events
    <2> QED BY <2>1, <2>2
<1>5. \A i \in 1..count : o(i) \in BOOLEAN BY DEF Listed, Contains
<1>6. \A i \in 1..count : fds[i].w \in Conns \cup {Pipe, None} BY <1>0 DEF TypeTable
<1>7. fds' = [i \in 1..fdLimit |-> IF i > count THEN Slot(None, FALSE) ELSE g(i)]
    BY <1>1, Zenon
<1> HIDE DEF rev, o
<1>8. \A i \in 1..count : g(i) \in SlotType /\ g(i).w = fds[i].w
    BY <1>4, <1>5, <1>6 DEF SlotType
<1>9. Slot(None, FALSE) \in SlotType /\ Slot(None, FALSE).w = None BY DEF Slot, SlotType
<1> DEFINE z == Slot(None, FALSE)
<1>10. /\ fds' = [i \in 1..fdLimit |-> IF i > count THEN z ELSE g(i)]
       /\ z \in SlotType /\ z.w = None
    BY <1>7, <1>9, Zenon
<1> HIDE DEF z, g
<1>11. \A i \in 1..fdLimit : i > count => fds[i].w = None BY <1>0 DEF TableAgrees, TypeTable
<1>12. fds' \in [1..fdLimit -> SlotType] /\ \A i \in 1..fdLimit : fds'[i].w = fds[i].w
    BY <1>0, <1>8, <1>10, <1>11 DEF TypeTable
<1>13. UNCHANGED <<fdLimit, count, pos, st, net, waiting, strayed>> BY DEF PollReturn
<1>14. InSet' = InSet /\ TypeConns' BY <1>0, <1>3, <1>13 DEF InSet, TypeConns
<1> QED BY <1>0, <1>12, <1>13, <1>14, StayNext

(* The steps that leave the table alone, but for a request in one slot.      *)
LEMMA RestStep ==
    ASSUME Inv,
           \/ EnterPoll \/ ScanEnd \/ NextService \/ Foreign
           \/ \E c \in Conns : Network(c) \/ Send(c)
           \/ UNCHANGED vars
    PROVE  TypeTable' /\ TableAgrees' /\ TypeConns'
<1>0. /\ TypeTable /\ TableAgrees /\ TypeConns /\ fdLimit \in Nat
    BY InvGood DEF Inv, TypeOK
<1>1. UNCHANGED <<fdLimit, count, pos, st>>
    BY DEF EnterPoll, ScanEnd, NextService, Foreign, ForeignTest, ForeignIndex, ForeignWrite,
           Network, Send, Quiet, vars, tableVars, connVars
<1>2. InSet' = InSet BY <1>1 DEF InSet
<1>3. ASSUME UNCHANGED fds PROVE TypeTable' /\ TableAgrees'
    <2>1. fds \in [1..fdLimit -> SlotType] BY <1>0 DEF TypeTable, SlotType
    <2> QED BY <1>0, <1>1, <1>2, <1>3, <2>1, StayNext
<1>4. CASE EnterPoll \/ ScanEnd \/ NextService \/ UNCHANGED vars
    <2>1. /\ UNCHANGED <<fds, st, net, waiting, strayed>>
          /\ reported' = reported \/ reported' = [c \in Conns |-> {}]
        BY <1>4 DEF EnterPoll, ScanEnd, NextService, vars, tableVars, connVars
    <2>2. TypeConns' BY <1>0, <2>1 DEF TypeConns
    <2> QED BY <1>3, <2>1, <2>2
<1>5. CASE ForeignTest \/ ForeignIndex
    <2>1. UNCHANGED <<fds, st, net, waiting, reported, strayed>>
        BY <1>5 DEF ForeignTest, ForeignIndex, Quiet
    <2>2. TypeConns' BY <1>0, <2>1 DEF TypeConns
    <2> QED BY <1>3, <2>1, <2>2
<1>6. CASE ForeignWrite
    <2>1. /\ fds' = IF frg.slot \in 1..count THEN [fds EXCEPT ![frg.slot].out = TRUE] ELSE fds
          /\ strayed' = IF frg.w \in waiting /\ frg.slot # pos[frg.w]
                        THEN strayed \cup {frg.w} ELSE strayed
          /\ UNCHANGED <<net, waiting, reported>>
        BY <1>6 DEF ForeignWrite, Quiet
    <2>2. TypeConns' BY <1>0, <1>1, <2>1 DEF TypeConns
    <2>3. CASE frg.slot \in 1..count
        <3>1. frg.slot \in 1..fdLimit BY <1>0, <2>3 DEF TypeTable
        <3>2. fds' = [fds EXCEPT ![frg.slot].out = TRUE] BY <2>1, <2>3
        <3>3. fds' \in [1..fdLimit -> SlotType] /\ \A j \in 1..fdLimit : fds'[j].w = fds[j].w
            BY <1>0, <3>1, <3>2, OutStep
        <3> QED BY <1>0, <1>1, <1>2, <2>2, <3>3, StayNext
    <2>4. CASE frg.slot \notin 1..count BY <1>3, <2>1, <2>2, <2>4
    <2> QED BY <2>3, <2>4
<1>7. ASSUME NEW c \in Conns, Network(c) PROVE TypeTable' /\ TableAgrees' /\ TypeConns'
    <2>1. UNCHANGED <<fds, st, waiting, reported, strayed>>
        BY <1>7 DEF Network, tableVars
    <2>2. \E n \in {"quiet", "data", "hup"} : net' = [net EXCEPT ![c] = n]
        BY <1>7 DEF Network
    <2>3. TypeConns' BY <1>0, <2>1, <2>2 DEF TypeConns
    <2> QED BY <1>3, <2>1, <2>3
<1>8. ASSUME NEW c \in Conns, Send(c) PROVE TypeTable' /\ TableAgrees' /\ TypeConns'
    <2>1. UNCHANGED <<fds, st, net, reported, strayed>> /\ waiting' = waiting \cup {c}
        BY <1>8 DEF Send, Quiet
    <2>2. TypeConns' BY <1>0, <2>1 DEF TypeConns
    <2> QED BY <1>3, <2>1, <2>2
<1> QED BY <1>4, <1>5, <1>6, <1>7, <1>8 DEF Foreign

(* Every step keeps table, positions and states together.                    *)
LEMMA TableStep == ASSUME Inv, [Next]_vars PROVE TypeTable' /\ TableAgrees' /\ TypeConns'
<1>1. CASE Scan
    <2>1. CASE ScanEnd BY <2>1, RestStep
    <2>2. ASSUME NEW i \in 1..fdLimit, ServeAttempt(i)
          PROVE TypeTable' /\ TableAgrees' /\ TypeConns'
        BY <2>2, AttemptInScan
    <2>3. ASSUME NEW i \in 1..fdLimit,
                 \/ ServePipe(i) \/ ServeClose(i) \/ ServeDeferred(i) \/ ServeConnected(i)
                 \/ ServeHandled(i)
          PROVE TypeTable' /\ TableAgrees' /\ TypeConns'
        BY <2>3, ServeStep
    <2> QED BY <1>1, <2>1, <2>2, <2>3 DEF Scan
<1>2. CASE Timer BY <1>2, TimerStep DEF Timer
<1>3. CASE PollReturn BY <1>3, PollStep
<1>4. ASSUME NEW c \in Conns, RunClosure(c) PROVE TypeTable' /\ TableAgrees' /\ TypeConns'
    <2>0. GoodTable(Table, InSet) /\ InSet \in SUBSET Conns BY InvGood
    <2>1. st[c] = "idle" /\ UNCHANGED fdLimit BY <1>4 DEF RunClosure, Rest
    <2>2. InSet \ {c} = InSet BY <2>1 DEF InSet, InTable
    <2>3. Attempt(Table, c) \/ Resolve(Table, c) \/ Close(Table, c) BY <1>4 DEF RunClosure
    <2> QED BY <2>0, <2>1, <2>2, <2>3, AttemptStep, ResolveStep, CloseStep
<1>5. CASE \/ EnterPoll \/ NextService \/ Foreign \/ UNCHANGED vars
           \/ \E c \in Conns : Network(c) \/ Send(c)
    BY <1>5, RestStep
<1> QED BY <1>1, <1>2, <1>3, <1>4, <1>5 DEF Next, Service

(* The two threads' own variables.                                           *)
LEMMA ThreadsStep == ASSUME Inv, [Next]_vars PROVE TypeThreads'
<1> DEFINE F == {Idle} \cup [at : {"test", "index", "write"}, w : Conns,
                             slot : 1..fdLimit \cup {NoPos}]
<1>0. /\ TypeTable /\ TableAgrees /\ TypeConns /\ TypeThreads
      /\ fdLimit \in Nat /\ maxAttempts \in Nat /\ maxSends \in Nat
    BY InvGood, TableAssumption DEF Inv, TypeOK
<1>1. ASSUME UNCHANGED <<fdLimit, list, frg, sends>>, asked' \subseteq 1..fdLimit,
             phase' \in {"timers", "poll", "scan", "closures"}, scan' \in 1..fdLimit + 1,
             attempts' \in 0..maxAttempts
      PROVE  TypeThreads'
    BY <1>0, <1>1 DEF TypeThreads
<1>2. /\ asked \subseteq 1..fdLimit /\ phase \in {"timers", "poll", "scan", "closures"}
      /\ scan \in 1..fdLimit + 1 /\ attempts \in 0..maxAttempts /\ count \in 1..fdLimit
    BY <1>0 DEF TypeThreads, TypeTable
<1>3. CASE EnterPoll \/ ScanEnd \/ NextService
    <2>1. UNCHANGED <<fdLimit, list, frg, sends, attempts>>
        BY <1>3 DEF EnterPoll, ScanEnd, NextService
    <2>2. /\ phase' \in {"timers", "poll", "scan", "closures"}
          /\ scan' = scan \/ scan' = 1
          /\ asked' = asked \/ asked' \subseteq 1..count
        BY <1>3 DEF EnterPoll, ScanEnd, NextService
    <2>3. scan' \in 1..fdLimit + 1 BY <1>0, <1>2, <2>2
    <2>4. 1..count \subseteq 1..fdLimit BY <1>0, <1>2
    <2>5. asked' \subseteq 1..fdLimit BY <1>2, <2>2, <2>4
    <2> QED BY <1>1, <1>2, <2>1, <2>2, <2>3, <2>5
<1>4. CASE PollReturn
    <2>1. /\ UNCHANGED <<fdLimit, frg, sends, attempts>> /\ list' = <<>> /\ asked' = {}
          /\ phase' = "scan" /\ scan' = 1
        BY <1>4 DEF PollReturn
    <2> QED BY <1>0, <2>1 DEF TypeThreads
<1>5. ASSUME NEW i \in 1..fdLimit,
             \/ ServePipe(i) \/ ServeClose(i) \/ ServeDeferred(i) \/ ServeConnected(i)
             \/ ServeAttempt(i) \/ ServeHandled(i)
      PROVE  TypeThreads'
    <2>1. UNCHANGED <<fdLimit, phase, asked, list, frg, sends>>
        BY <1>5 DEF ServePipe, ServeClose, ServeDeferred, ServeConnected, ServeAttempt,
                    ServeHandled, Kept
    <2>2. scan' \in {i, i + 1}
        BY <1>5 DEF ServePipe, ServeClose, ServeDeferred, ServeConnected, ServeAttempt,
                    ServeHandled, RetrySlot
    <2>3. attempts' = attempts \/ (attempts < maxAttempts /\ attempts' = attempts + 1)
        BY <1>5 DEF ServePipe, ServeClose, ServeDeferred, ServeConnected, ServeAttempt,
                    ServeHandled
    <2>4. scan' \in 1..fdLimit + 1 BY <1>0, <2>2
    <2>5. attempts' \in 0..maxAttempts BY <1>0, <1>2, <2>3
    <2> QED BY <1>1, <1>2, <2>1, <2>4, <2>5
<1>6. ASSUME NEW c \in Conns,
             \/ TimerClose(c) \/ TimerAttempt(c) \/ TimerLookup(c) \/ ValidityPing(c)
             \/ RunClosure(c) \/ Network(c)
      PROVE  TypeThreads'
    <2>1. UNCHANGED <<fdLimit, phase, scan, asked, list, frg, sends>>
        BY <1>6 DEF TimerClose, TimerAttempt, TimerLookup, ValidityPing, RunClosure, Network,
                    Rest, loopVars
    <2>2. attempts' = attempts \/ (attempts < maxAttempts /\ attempts' = attempts + 1)
        BY <1>6 DEF TimerClose, TimerAttempt, TimerLookup, ValidityPing, RunClosure, Network
    <2>3. attempts' \in 0..maxAttempts BY <1>0, <1>2, <2>2
    <2> QED BY <1>1, <1>2, <2>1, <2>3
<1>7. ASSUME NEW w \in Conns PROVE Position(w) \subseteq 1..fdLimit \cup {NoPos}
    BY <1>0 DEF Position, TypeTable
<1>8. /\ frg.at \in {"test", "index", "write"} => frg \in F /\ frg.w \in Conns
    BY <1>0 DEF TypeThreads, Idle
<1>9. CASE Foreign
    <2>1. UNCHANGED <<fdLimit, phase, scan, asked, attempts, sends>>
        BY <1>9 DEF Foreign, ForeignTest, ForeignIndex, ForeignWrite, Quiet, loopVars
    <2>2. list' \in Seq(1..fdLimit \cup {NoPos})
        <3>1. CASE ForeignTest
            <4>1. CASE UNCHANGED list BY <1>0, <4>1 DEF TypeThreads
            <4>2. CASE \E s \in Position(frg.w) : list' = Append(list, s)
                <5>1. frg.w \in Conns BY <1>8, <3>1 DEF ForeignTest
                <5>2. PICK s \in 1..fdLimit \cup {NoPos} : list' = Append(list, s)
                    BY <1>7, <4>2, <5>1
                <5> QED BY <1>0, <5>2 DEF TypeThreads
            <4> QED BY <3>1, <4>1, <4>2 DEF ForeignTest
        <3>2. CASE ForeignIndex \/ ForeignWrite
            BY <1>0, <3>2 DEF ForeignIndex, ForeignWrite, TypeThreads
        <3> QED BY <1>9, <3>1, <3>2 DEF Foreign
    <2>3. frg' \in F
        <3>1. CASE frg' = Idle BY <3>1
        <3>2. CASE ForeignTest /\ frg' = [frg EXCEPT !.at = "index"]
            <4>1. frg \in [at : {"test", "index", "write"}, w : Conns,
                           slot : 1..fdLimit \cup {NoPos}]
                BY <1>8, <3>2 DEF ForeignTest, Idle
            <4> QED BY <3>2, <4>1
        <3>3. CASE ForeignIndex
            <4>1. /\ frg \in [at : {"test", "index", "write"}, w : Conns,
                              slot : 1..fdLimit \cup {NoPos}]
                  /\ frg.w \in Conns
                BY <1>8, <3>3 DEF ForeignIndex, Idle
            <4>2. PICK s \in 1..fdLimit \cup {NoPos} :
                    frg' = [frg EXCEPT !.at = "write", !.slot = s]
                BY <1>7, <3>3, <4>1 DEF ForeignIndex
            <4> QED BY <4>1, <4>2
        <3> QED BY <1>9, <3>1, <3>2, <3>3 DEF Foreign, ForeignTest, ForeignWrite
    <2> QED BY <1>0, <2>1, <2>2, <2>3 DEF TypeThreads
<1>10. ASSUME NEW c \in Conns, Send(c) PROVE TypeThreads'
    <2>1. /\ UNCHANGED <<fdLimit, phase, scan, asked, attempts, list>>
          /\ sends < maxSends /\ sends' = sends + 1
          /\ frg' = [at |-> "test", w |-> c, slot |-> NoPos]
        BY <1>10 DEF Send, Quiet, loopVars
    <2>2. sends' \in 0..maxSends BY <1>0, <2>1 DEF TypeThreads
    <2> QED BY <1>0, <2>1, <2>2 DEF TypeThreads
<1>11. CASE UNCHANGED vars BY <1>0, <1>11 DEF TypeThreads, vars, loopVars
<1> QED BY <1>3, <1>4, <1>5, <1>6, <1>9, <1>10, <1>11 DEF Next, Service, Scan, Timer

(* The table begins with the event pipe alone.                               *)
LEMMA InitInv == Init => Inv
<1> SUFFICES ASSUME Init PROVE Inv OBVIOUS
<1> DEFINE first == Slot(Pipe, FALSE)
           none == Slot(None, FALSE)
<1>1. fdLimit \in Nat \ {0} /\ fdLimit \in FdLimits BY TableAssumption DEF Init
<1>2. /\ first \in SlotType /\ first.w = Pipe /\ none \in SlotType /\ none.w = None
    BY DEF Slot, SlotType
<1>3. fds = [i \in 1..fdLimit |-> IF i = 1 THEN first ELSE none] BY DEF Init, Slot
<1> HIDE DEF first, none
<1>4. /\ fds \in [1..fdLimit -> SlotType] /\ fds[1].w = Pipe
      /\ \A i \in 2..fdLimit : fds[i].w = None
    BY <1>1, <1>2, <1>3
<1>0. count = 1 /\ pos = [c \in Conns |-> NoPos] /\ st = [c \in Conns |-> "idle"]
    BY DEF Init
<1>5. TypeTable BY <1>0, <1>1, <1>4 DEF TypeTable, SlotType
<1>6. TypeConns BY DEF Init, TypeConns
<1>7. TypeThreads
    <2>1. 0 \in 0..maxAttempts /\ 0 \in 0..maxSends BY TableAssumption
    <2>2. <<>> \in Seq(1..fdLimit \cup {NoPos}) OBVIOUS
    <2> QED BY <1>1, <2>1, <2>2 DEF Init, TypeThreads
<1>8. TableAgrees BY <1>0, <1>1, <1>4 DEF TableAgrees, InTable
<1> QED BY <1>5, <1>6, <1>7, <1>8 DEF Inv, TypeOK

(* Together they are inductive.                                              *)
LEMMA InvStep == Inv /\ [Next]_vars => Inv'
BY TableStep, ThreadsStep DEF Inv, TypeOK

(* Every variable keeps its type, so the table never outgrows the fd limit   *)
(* and the scan never leaves it (pt->fds, fds_count, fd_limit_per_thread).    *)
THEOREM TypeCorrect == Spec => []TypeOK
<1>1. Inv => TypeOK BY DEF Inv
<1> QED BY InitInv, InvStep, <1>1, PTL DEF Spec

(* Table and positions agree after every insert, removal and move, also those *)
(* in the middle of a scan and those between a sender's look at a slot and    *)
(* its write (__insert_wsi_socket_into_fds, __remove_wsi_socket_from_fds).    *)
THEOREM TableAgreesCorrect == Spec => []TableAgrees
<1>1. Inv => TableAgrees BY DEF Inv
<1> QED BY InitInv, InvStep, <1>1, PTL DEF Spec

-----------------------------------------------------------------------------
(* The revents in a slot are those of the connection that has it.            *)

Own(t, rep) == \A i \in 2..t.count : t.fds[i].revents \subseteq rep[t.fds[i].w]
AgreeBut(q, rep, c) == \A d \in Conns : d # c => q[d] = rep[d]

(* A connection without a slot may be reported anything.                     *)
LEMMA OwnOthers ==
    ASSUME NEW t, NEW S \in SUBSET Conns, GoodTable(t, S), NEW c \in Conns \ S,
           NEW rep, NEW q, AgreeBut(q, rep, c), Own(t, rep)
    PROVE  Own(t, q)
<1> SUFFICES ASSUME NEW i \in 2..t.count PROVE t.fds[i].revents \subseteq q[t.fds[i].w]
    BY DEF Own
<1>1. t.fds[i].w \in Conns /\ t.pos[t.fds[i].w] = i /\ t.pos[c] = NoPos BY DEF GoodTable
<1>2. t.fds[i].w # c BY <1>1 DEF NoPos
<1> QED BY <1>1, <1>2 DEF Own, AgreeBut

(* The one that moves takes its revents along.                               *)
LEMMA RemoveOwn ==
    ASSUME fdLimit \in Nat, NEW t, NEW S \in SUBSET Conns, GoodTable(t, S), NEW c \in Conns,
           NEW rep, NEW q, AgreeBut(q, rep, c), Own(t, rep)
    PROVE  Own(RemoveFd(t, c), q)
<1>1. CASE c \notin S
    <2>1. RemoveFd(t, c) = t BY <1>1 DEF GoodTable, RemoveFd
    <2> QED BY <1>1, <2>1, OwnOthers
<1>2. CASE c \in S
    <2> DEFINE m == t.pos[c]
               n == t.count
               u == RemoveFd(t, c)
    <2>1. m \in 2..n /\ n \in 2..fdLimit /\ m # NoPos BY <1>2 DEF GoodTable, NoPos
    <2>2. t.fds[n].w \in Conns /\ t.pos[t.fds[n].w] = n BY <2>1 DEF GoodTable
    <2>3. /\ u.fds = [[t.fds EXCEPT ![m] = t.fds[n]] EXCEPT ![n] = Gone(@)]
          /\ u.count = n - 1
        BY <2>1 DEF RemoveFd
    <2>4. t.fds \in [1..fdLimit -> SlotType] BY DEF GoodTable
    <2> HIDE DEF u
    <2> SUFFICES ASSUME NEW i \in 2..u.count PROVE u.fds[i].revents \subseteq q[u.fds[i].w]
        BY DEF Own, u
    <2>5. i \in 2..n - 1 /\ i # n BY <2>1, <2>3
    <2>6. CASE i = m
        <3>1. u.fds[i] = t.fds[n] BY <2>1, <2>3, <2>4, <2>5, <2>6
        <3>2. t.fds[n].w # c BY <2>2, <2>5, <2>6
        <3>3. t.fds[n].revents \subseteq rep[t.fds[n].w] BY <2>1 DEF Own
        <3> QED BY <2>2, <3>1, <3>2, <3>3 DEF AgreeBut
    <2>7. CASE i # m
        <3>1. u.fds[i] = t.fds[i] BY <2>1, <2>3, <2>4, <2>5, <2>7
        <3>2. i \in 2..t.count BY <2>1, <2>5
        <3>3. t.fds[i].w \in Conns /\ t.fds[i].w # c BY <2>7, <3>2 DEF GoodTable
        <3>4. t.fds[i].revents \subseteq rep[t.fds[i].w] BY <3>2 DEF Own
        <3> QED BY <3>1, <3>3, <3>4 DEF AgreeBut
    <2> QED BY <2>6, <2>7
<1> QED BY <1>1, <1>2

(* A new slot has no revents.                                                *)
LEMMA InsertOwn ==
    ASSUME fdLimit \in Nat, NEW t, NEW S \in SUBSET Conns, GoodTable(t, S),
           NEW c \in Conns, t.count < fdLimit, NEW q, Own(t, q)
    PROVE  Own(InsertFd(t, c), q)
<1> DEFINE n == t.count + 1
           s == Slot(c, TRUE)
           u == InsertFd(t, c)
<1>1. n \in 2..fdLimit /\ t.count \in Nat BY DEF GoodTable
<1>2. s \in SlotType /\ s.revents = {} BY DEF Slot, SlotType
<1>3. u.fds = [t.fds EXCEPT ![n] = s] /\ u.count = n BY DEF InsertFd
<1>4. t.fds \in [1..fdLimit -> SlotType] BY DEF GoodTable
<1> HIDE DEF u, s
<1>5. u.fds[n] = s /\ \A i \in 1..fdLimit : i # n => u.fds[i] = t.fds[i]
    BY <1>1, <1>2, <1>3, <1>4, Replaced
<1> SUFFICES ASSUME NEW i \in 2..u.count PROVE u.fds[i].revents \subseteq q[u.fds[i].w]
    BY DEF Own, u
<1>6. CASE i = n BY <1>2, <1>5, <1>6
<1>7. CASE i # n
    <2>1. i \in 2..t.count /\ i \in 1..fdLimit BY <1>1, <1>3, <1>7
    <2> QED BY <1>5, <1>7, <2>1 DEF Own
<1> QED BY <1>6, <1>7

(* Clearing the revents of one slot.                                         *)
LEMMA HandledOwn ==
    ASSUME fdLimit \in Nat, NEW f, NEW n, NEW p, NEW S, NEW i \in 1..fdLimit,
           GoodTable([fds |-> f, count |-> n, pos |-> p], S), NEW q,
           Own([fds |-> f, count |-> n, pos |-> p], q)
    PROVE  Own([[fds |-> f, count |-> n, pos |-> p] EXCEPT !.fds[i].revents = {}], q)
<1> DEFINE t == [fds |-> f, count |-> n, pos |-> p]
           u == [t EXCEPT !.fds[i].revents = {}]
           s == [f[i] EXCEPT !.revents = {}]
<1>1. t.fds = f /\ t.count = n OBVIOUS
<1>2. u.fds = [f EXCEPT ![i] = s] /\ u.count = n OBVIOUS
<1>3. GoodTable(t, S) /\ Own(t, q) OBVIOUS
<1> HIDE DEF t, u
<1>4. f \in [1..fdLimit -> SlotType] /\ n \in 1..fdLimit BY <1>1, <1>3 DEF GoodTable
<1>5. f[i] \in SlotType BY <1>4
<1>6. s \in SlotType /\ s.revents = {} BY <1>5 DEF SlotType
<1> HIDE DEF s
<1>7. u.fds[i] = s /\ \A j \in 1..fdLimit : j # i => u.fds[j] = f[j]
    BY <1>2, <1>4, <1>6, Replaced
<1>8. ASSUME NEW j \in 2..n PROVE u.fds[j].revents \subseteq q[u.fds[j].w]
    <2>1. CASE j = i BY <1>6, <1>7, <2>1
    <2>2. CASE j # i BY <1>1, <1>3, <1>4, <1>7, <2>2 DEF Own
    <2> QED BY <2>1, <2>2
<1>9. Own(u, q) BY <1>2, <1>8 DEF Own
<1> QED BY <1>9 DEF t, u

(* One slot changes and its revents are cleared or stay.                     *)
LEMMA SlotOwn ==
    ASSUME TypeTable, UNCHANGED count, NEW i \in 1..fdLimit, NEW s \in SlotType,
           s.w = fds[i].w, s.revents = {} \/ s.revents = fds[i].revents,
           fds' = [fds EXCEPT ![i] = s], Own(Table, reported),
           \A j \in 2..count : (j # i \/ s.revents # {}) =>
               reported'[fds[j].w] = reported[fds[j].w]
    PROVE  Own(Table', reported')
<1>1. /\ Table.fds = fds /\ Table.count = count
      /\ (Table').fds = fds' /\ (Table').count = count
    BY DEF Table
<1>2. fds \in [1..fdLimit -> SlotType] /\ count \in 1..fdLimit /\ fdLimit \in Nat
    BY TableAssumption DEF TypeTable, SlotType
<1>3. fds'[i] = s /\ \A j \in 1..fdLimit : j # i => fds'[j] = fds[j] BY <1>2, Replaced
<1>4. ASSUME NEW j \in 2..count PROVE fds'[j].revents \subseteq reported'[fds'[j].w]
    <2>1. fds[j].revents \subseteq reported[fds[j].w] /\ j \in 1..fdLimit BY <1>1, <1>2 DEF Own
    <2>2. CASE j # i BY <1>3, <2>1, <2>2
    <2>3. CASE j = i /\ s.revents = {} BY <1>3, <2>3
    <2>4. CASE j = i /\ s.revents # {} BY <1>3, <2>1, <2>4
    <2> QED BY <2>2, <2>3, <2>4
<1> HIDE DEF Table
<1> QED BY <1>1, <1>4 DEF Own

(* The steps that serve a slot of the scan.                                  *)
LEMMA ServeOwn ==
    ASSUME Inv, NEW i \in 1..fdLimit, Own(Table, reported),
           \/ ServePipe(i) \/ ServeClose(i) \/ ServeDeferred(i) \/ ServeConnected(i)
           \/ ServeAttempt(i) \/ ServeHandled(i)
    PROVE  Own(Table', reported')
<1> DEFINE c == fds[i].w
<1>0. /\ TypeTable /\ TableAgrees /\ TypeConns /\ fds[i] \in SlotType
      /\ GoodTable(Table, InSet) /\ fdLimit \in Nat /\ InSet \in SUBSET Conns
    BY InvGood DEF Inv, TypeOK, TypeTable, SlotType
<1>1. ASSUME c \in Conns, Served(i) PROVE i \in 2..count
    BY <1>0, <1>1, TableAssumption DEF Served, At, TableAgrees, TypeTable
<1>2. ASSUME c \in Conns, i \in 2..count, reported' = [reported EXCEPT ![c] = {}]
      PROVE  \A j \in 2..count : j # i => reported'[fds[j].w] = reported[fds[j].w]
    BY <1>0, <1>2 DEF TableAgrees, TypeConns
<1>3. ASSUME NEW d \in Conns, reported' = [reported EXCEPT ![d] = {}]
      PROVE  AgreeBut(reported', reported, d)
    BY <1>0, <1>3 DEF TypeConns, AgreeBut
<1>4. ASSUME NEW t, SetTable(t), Own(t, reported') PROVE Own(Table', reported')
    <2>1. (Table').fds = t.fds /\ (Table').count = t.count BY <1>4 DEF Table, SetTable
    <2> HIDE DEF Table
    <2> QED BY <1>4, <2>1 DEF Own
<1>5. CASE ServePipe(i)
    <2> DEFINE s == [fds[i] EXCEPT !.revents = {}]
    <2>1. s \in SlotType /\ s.w = fds[i].w /\ s.revents = {} BY <1>0 DEF SlotType
    <2>2. fds' = [fds EXCEPT ![i] = s] /\ UNCHANGED <<count, reported>>
        BY <1>5 DEF ServePipe, connVars
    <2> HIDE DEF s
    <2> QED BY <1>0, <2>1, <2>2, SlotOwn
<1>6. CASE ServeClose(i)
    <2>1. c \in Conns /\ SetTable(RemoveFd(Table, c)) /\ reported' = [reported EXCEPT ![c] = {}]
        BY <1>6 DEF ServeClose, Served, Close, Enter
    <2>2. AgreeBut(reported', reported, c) BY <1>3, <2>1
    <2> HIDE DEF c
    <2>3. Own(RemoveFd(Table, c), reported') BY <1>0, <2>1, <2>2, RemoveOwn
    <2> QED BY <1>4, <2>1, <2>3
<1>7. CASE ServeDeferred(i)
    <2>1. /\ c \in Conns /\ Served(i) /\ UNCHANGED <<count, reported>>
          /\ fds' = [fds EXCEPT ![pos[c]].out = TRUE]
        BY <1>7 DEF ServeDeferred, Served, Defer
    <2>2. pos[c] = i BY <1>0, <1>1, <2>1 DEF TableAgrees
    <2> DEFINE s == [fds[i] EXCEPT !.out = TRUE]
    <2>3. s \in SlotType /\ s.w = fds[i].w /\ s.revents = fds[i].revents BY <1>0 DEF SlotType
    <2>4. fds' = [fds EXCEPT ![i] = s] BY <2>1, <2>2
    <2> HIDE DEF s
    <2> QED BY <1>0, <2>1, <2>3, <2>4, SlotOwn
<1>8. CASE ServeConnected(i) \/ ServeHandled(i)
    <2>1. /\ c \in Conns /\ Served(i) /\ UNCHANGED count
          /\ reported' = [reported EXCEPT ![c] = {}]
        BY <1>8 DEF ServeConnected, ServeHandled, Served
    <2>2. PICK s \in SlotType : s.w = c /\ s.revents = {} /\ fds' = [fds EXCEPT ![i] = s]
        <3> DEFINE b == IF "OUT" \in fds[i].revents THEN waiting' # waiting ELSE fds[i].out
                   s0 == Slot(c, FALSE)
                   s1 == Slot(c, b)
        <3>1. b \in BOOLEAN BY <1>0 DEF SlotType
        <3>2. s0 \in SlotType /\ s0.w = c /\ s0.revents = {} BY <2>1 DEF Slot, SlotType
        <3>3. s1 \in SlotType /\ s1.w = c /\ s1.revents = {}
            <4> HIDE DEF b
            <4> QED BY <2>1, <3>1 DEF Slot, SlotType
        <3>4. CASE ServeConnected(i)
            <4>1. fds' = [fds EXCEPT ![i] = s0] BY <3>4 DEF ServeConnected
            <4> HIDE DEF s0
            <4> QED BY <3>2, <4>1
        <3>5. CASE ServeHandled(i)
            <4>1. fds' = [fds EXCEPT ![i] = s1] BY <1>0, <3>5 DEF ServeHandled, TypeTable
            <4> HIDE DEF s1
            <4> QED BY <3>3, <4>1
        <3> QED BY <1>8, <3>4, <3>5
    <2>3. \A j \in 2..count : j # i => reported'[fds[j].w] = reported[fds[j].w]
        BY <1>1, <1>2, <2>1
    <2> QED BY <1>0, <2>1, <2>2, <2>3, SlotOwn
<1>9. CASE ServeAttempt(i)
    <2> DEFINE gone == RemoveFd(Table, c)
               back == InsertFd(gone, c)
               H(t) == [t EXCEPT !.fds[i].revents = {}]
    <2>1. /\ c \in Conns /\ st[c] \in {"connecting", "handshake"}
          /\ reported' = [reported EXCEPT ![c] = {}]
          /\ \/ SetTable(RemoveFd(back, c)) \/ SetTable(H(back)) \/ SetTable(H(gone))
        BY <1>9 DEF ServeAttempt, Served, Close, Resolve, Enter
    <2>2. c \in InSet BY <2>1 DEF InSet, InTable
    <2>0. AgreeBut(reported', reported, c) BY <1>3, <2>1
    <2> HIDE DEF c
    <2>3. GoodTable(gone, InSet \ {c}) /\ Own(gone, reported')
        BY <1>0, <2>0, <2>1, RemoveGood, RemoveOwn
    <2>4. Table.pos[c] # NoPos BY <1>0, <2>2 DEF GoodTable, NoPos
    <2>5. gone.count < fdLimit
        <3>1. gone.count = Table.count - 1 BY <2>4 DEF RemoveFd
        <3> QED BY <1>0, <3>1 DEF GoodTable
    <2>6. /\ InSet \ {c} \in SUBSET Conns /\ c \in Conns \ (InSet \ {c})
          /\ (InSet \ {c}) \cup {c} \in SUBSET Conns
        BY <1>0, <2>1
    <2>7. GoodTable(back, (InSet \ {c}) \cup {c}) /\ Own(back, reported')
        <3> HIDE DEF gone
        <3> QED BY <1>0, <2>3, <2>5, <2>6, InsertGood, InsertOwn
    <2>8. Own(H(back), reported')
        <3> HIDE DEF gone
        <3> QED BY <1>0, <2>7, HandledOwn DEF InsertFd
    <2>9. Own(H(gone), reported') BY <1>0, <2>3, <2>4, HandledOwn DEF RemoveFd
    <2>10. Own(RemoveFd(back, c), reported')
        <3> HIDE DEF back
        <3>1. AgreeBut(reported', reported', c) BY DEF AgreeBut
        <3> QED BY <1>0, <2>1, <2>6, <2>7, <3>1, RemoveOwn
    <2> HIDE DEF H, back, gone
    <2> QED BY <1>4, <2>1, <2>8, <2>9, <2>10
<1> QED BY <1>5, <1>6, <1>7, <1>8, <1>9

(* poll() reports to the slot that the connection has.                       *)
LEMMA PollOwn == ASSUME Inv, PollReturn PROVE Own(Table', reported')
<1>0. /\ TypeTable /\ TableAgrees /\ fdLimit \in Nat BY InvGood DEF Inv, TypeOK
<1>1. /\ count' = count
      /\ fds' = [i \in 1..fdLimit |->
            IF i > count THEN Slot(None, FALSE)
            ELSE [w |-> fds[i].w, out |-> fds[i].out \/ Listed(i),
                  revents |-> IF fds[i].w = Pipe THEN {e \in {"IN"} : list # <<>>}
                                                 ELSE reported'[fds[i].w]]]
    BY DEF PollReturn
<1>2. ASSUME NEW i \in 2..count PROVE fds'[i].revents \subseteq reported'[fds'[i].w]
    <2>1. fds[i].w \in Conns /\ i \in 1..fdLimit /\ ~(i > count)
        BY <1>0 DEF TableAgrees, TypeTable
    <2>2. fds[i].w # Pipe BY <2>1, TableAssumption
    <2> DEFINE b == fds[i].out \/ Listed(i)
    <2>3. fds'[i] = [w |-> fds[i].w, out |-> b, revents |-> reported'[fds[i].w]]
        BY <1>1, <2>1, <2>2
    <2> HIDE DEF b
    <2> QED BY <2>3
<1>3. (Table').fds = fds' /\ (Table').count = count BY <1>1 DEF Table
<1> HIDE DEF Table
<1> QED BY <1>2, <1>3 DEF Own

(* No step of either thread brings events to a slot that are not its own.     *)
LEMMA OwnStep ==
    ASSUME Inv, ReventsOwn, [Next]_vars PROVE ReventsOwn'
<1>0. (phase = "scan" => Own(Table, reported)) /\ fdLimit \in Nat /\ TypeTable
    BY InvGood DEF ReventsOwn, Own, Table, Inv, TypeOK
<1>1. ASSUME phase' = "scan" => Own(Table', reported') PROVE ReventsOwn'
    <2>1. (Table').fds = fds' /\ (Table').count = count' BY DEF Table
    <2> HIDE DEF Table
    <2> QED BY <1>1, <2>1 DEF ReventsOwn, Own
<1>2. CASE Scan
    <2>1. CASE ScanEnd BY <1>1, <2>1 DEF ScanEnd
    <2>2. ASSUME NEW i \in 1..fdLimit,
                 \/ ServePipe(i) \/ ServeClose(i) \/ ServeDeferred(i) \/ ServeConnected(i)
                 \/ ServeAttempt(i) \/ ServeHandled(i)
          PROVE ReventsOwn'
        <3>1. phase = "scan"
            BY <2>2 DEF ServePipe, ServeClose, ServeDeferred, ServeConnected, ServeAttempt,
                        ServeHandled, Served, At
        <3> QED BY <1>0, <1>1, <2>2, <3>1, ServeOwn
    <2> QED BY <1>2, <2>1, <2>2 DEF Scan
<1>3. CASE PollReturn BY <1>1, <1>3, PollOwn
<1>4. CASE EnterPoll \/ NextService BY <1>1, <1>4 DEF EnterPoll, NextService
<1>5. CASE Timer
    <2>1. phase' = "timers"
        BY <1>5 DEF Timer, TimerClose, TimerAttempt, TimerLookup, ValidityPing, Timers, Rest,
                    loopVars
    <2> QED BY <1>1, <2>1
<1>6. ASSUME NEW c \in Conns, RunClosure(c) PROVE ReventsOwn'
    <2>1. phase' = "closures" BY <1>6 DEF RunClosure, Rest, loopVars
    <2> QED BY <1>1, <2>1
<1>7. CASE \/ UNCHANGED vars \/ ForeignTest \/ ForeignIndex
           \/ \E c \in Conns : Network(c) \/ Send(c)
    <2>1. UNCHANGED <<fds, count, reported, phase>>
        BY <1>7 DEF vars, tableVars, connVars, loopVars, ForeignTest, ForeignIndex, Network,
                    Send, Quiet
    <2> QED BY <2>1 DEF ReventsOwn
<1>8. CASE ForeignWrite
    <2>1. /\ UNCHANGED <<count, reported, phase>>
          /\ fds' = IF frg.slot \in 1..count THEN [fds EXCEPT ![frg.slot].out = TRUE] ELSE fds
        BY <1>8 DEF ForeignWrite, Quiet, loopVars
    <2>2. CASE frg.slot \in 1..count
        <3> DEFINE s == [fds[frg.slot] EXCEPT !.out = TRUE]
        <3>1. frg.slot \in 1..fdLimit BY <1>0, <2>2 DEF TypeTable
        <3>2. fds[frg.slot] \in SlotType BY <1>0, <3>1 DEF TypeTable, SlotType
        <3>3. s \in SlotType /\ s.w = fds[frg.slot].w /\ s.revents = fds[frg.slot].revents
            BY <3>2 DEF SlotType
        <3>4. fds' = [fds EXCEPT ![frg.slot] = s] BY <2>1, <2>2
        <3> HIDE DEF s
        <3>5. phase = "scan" => Own(Table', reported')
            BY <1>0, <2>1, <3>1, <3>3, <3>4, SlotOwn
        <3> QED BY <1>1, <2>1, <3>5
    <2>3. CASE frg.slot \notin 1..count
        <3>1. UNCHANGED fds BY <2>1, <2>3
        <3> QED BY <2>1, <3>1 DEF ReventsOwn
    <2> QED BY <2>2, <2>3
<1> QED BY <1>2, <1>3, <1>4, <1>5, <1>6, <1>7, <1>8 DEF Next, Service, Foreign

(* No connection is served for another's events or twice for its own, although *)
(* slots are given to others in the middle of the scan (lws_service_fd_tsi,    *)
(* __remove_wsi_socket_from_fds).                                              *)
THEOREM ReventsOwnCorrect == Spec => []ReventsOwn
<1>1. Init => ReventsOwn BY DEF Init, ReventsOwn
<1>2. Inv /\ ReventsOwn /\ [Next]_vars => ReventsOwn' BY OwnStep
<1> QED BY InitInv, InvStep, <1>1, <1>2, PTL DEF Spec

-----------------------------------------------------------------------------
(* What the scan has passed is dealt with.                                   *)

(* In the slots of t before k there are no revents, except with a connection *)
(* that s has closing.                                                       *)
Dealt(t, s, k) ==
    \A i \in 1..t.count :
        (i < k /\ t.fds[i].revents # {}) => i > 1 /\ s[t.fds[i].w] = "closing"

(* How far that is: up to the scan, and outside of it to the end.            *)
Passed == IF phase = "scan" THEN scan ELSE fdLimit + 1
ScanInv == Dealt(Table, st, Passed)

(* The one that moves comes from behind the scan to where the scan is, or    *)
(* all the table is dealt with.                                              *)
LEMMA RemoveDealt ==
    ASSUME fdLimit \in Nat, NEW t, NEW S \in SUBSET Conns, GoodTable(t, S), NEW c \in Conns,
           NEW s, NEW q, AgreeBut(q, s, c), NEW k \in Int, Dealt(t, s, k),
           c \in S => k <= t.pos[c] \/ k > t.count
    PROVE  Dealt(RemoveFd(t, c), q, k)
<1>1. ASSUME NEW i \in 2..t.count, t.fds[i].w # c, t.fds[i].revents # {}, i < k
      PROVE  q[t.fds[i].w] = "closing"
    <2>1. i \in 1..t.count /\ t.fds[i].w \in Conns BY DEF GoodTable
    <2>2. s[t.fds[i].w] = "closing" BY <1>1, <2>1 DEF Dealt
    <2> QED BY <1>1, <2>1, <2>2 DEF AgreeBut
<1>2. 1 < k => t.fds[1].revents = {} BY DEF Dealt, GoodTable
<1>3. CASE c \notin S
    <2>1. RemoveFd(t, c) = t BY <1>3 DEF GoodTable, RemoveFd
    <2>2. \A i \in 2..t.count : t.fds[i].w # c BY <1>3 DEF GoodTable, NoPos
    <2>3. t.count \in Nat BY DEF GoodTable
    <2>4. Dealt(t, q, k) BY <1>1, <1>2, <2>2, <2>3 DEF Dealt
    <2> QED BY <2>1, <2>4
<1>4. CASE c \in S
    <2> DEFINE m == t.pos[c]
               n == t.count
               u == RemoveFd(t, c)
    <2>1. m \in 2..n /\ n \in 2..fdLimit /\ m # NoPos BY <1>4 DEF GoodTable, NoPos
    <2>2. t.fds[n].w \in Conns /\ t.pos[t.fds[n].w] = n BY <2>1 DEF GoodTable
    <2>3. /\ u.fds = [[t.fds EXCEPT ![m] = t.fds[n]] EXCEPT ![n] = Gone(@)]
          /\ u.count = n - 1
        BY <2>1 DEF RemoveFd
    <2>4. t.fds \in [1..fdLimit -> SlotType] BY DEF GoodTable
    <2>5. k <= m \/ k > n BY <1>4
    <2> HIDE DEF u
    <2> SUFFICES ASSUME NEW i \in 1..u.count, i < k, u.fds[i].revents # {}
                 PROVE  i > 1 /\ q[u.fds[i].w] = "closing"
        BY DEF Dealt, u
    <2>6. i \in 1..n - 1 /\ i # n BY <2>1, <2>3
    <2>7. CASE i = m
        <3>1. u.fds[i] = t.fds[n] BY <2>1, <2>3, <2>4, <2>6, <2>7
        <3>2. t.fds[n].w # c BY <2>2, <2>6, <2>7
        <3>3. n < k /\ n \in 2..t.count BY <2>1, <2>5, <2>7
        <3>4. q[t.fds[n].w] = "closing" BY <1>1, <3>1, <3>2, <3>3
        <3> QED BY <2>1, <2>7, <3>1, <3>4
    <2>8. CASE i # m
        <3>1. u.fds[i] = t.fds[i] BY <2>1, <2>3, <2>4, <2>6, <2>8
        <3>2. i # 1 BY <1>2, <3>1
        <3>3. i \in 2..t.count BY <2>1, <2>6, <3>2
        <3>4. t.fds[i].w # c BY <2>8, <3>3 DEF GoodTable
        <3> QED BY <1>1, <3>1, <3>3, <3>4
    <2> QED BY <2>7, <2>8
<1> QED BY <1>3, <1>4

(* A new slot has no revents, and its connection had no other.               *)
LEMMA InsertDealt ==
    ASSUME fdLimit \in Nat, NEW t, NEW S \in SUBSET Conns, GoodTable(t, S),
           NEW c \in Conns \ S, t.count < fdLimit, NEW s, NEW q, AgreeBut(q, s, c),
           NEW k \in Int, Dealt(t, s, k)
    PROVE  Dealt(InsertFd(t, c), q, k)
<1> DEFINE n == t.count + 1
           z == Slot(c, TRUE)
           u == InsertFd(t, c)
<1>1. n \in 2..fdLimit /\ t.count \in Nat BY DEF GoodTable
<1>2. z \in SlotType /\ z.revents = {} BY DEF Slot, SlotType
<1>3. u.fds = [t.fds EXCEPT ![n] = z] /\ u.count = n BY DEF InsertFd
<1>4. t.fds \in [1..fdLimit -> SlotType] BY DEF GoodTable
<1> HIDE DEF u, z
<1>5. u.fds[n] = z /\ \A i \in 1..fdLimit : i # n => u.fds[i] = t.fds[i]
    BY <1>1, <1>2, <1>3, <1>4, Replaced
<1> SUFFICES ASSUME NEW i \in 1..u.count, i < k, u.fds[i].revents # {}
             PROVE  i > 1 /\ q[u.fds[i].w] = "closing"
    BY DEF Dealt, u
<1>6. i # n BY <1>2, <1>5
<1>7. i \in 1..t.count /\ i \in 1..fdLimit BY <1>1, <1>3, <1>6
<1>8. u.fds[i] = t.fds[i] BY <1>5, <1>6, <1>7
<1>9. i > 1 /\ s[t.fds[i].w] = "closing" BY <1>7, <1>8 DEF Dealt
<1>10. t.fds[i].w \in Conns /\ t.fds[i].w # c BY <1>7, <1>9 DEF GoodTable, NoPos
<1> QED BY <1>8, <1>9, <1>10 DEF AgreeBut

(* The slot the scan is at is cleared and the scan goes on behind it.        *)
LEMMA HandledDealt ==
    ASSUME fdLimit \in Nat, NEW f, NEW n, NEW p, NEW S, NEW i \in 1..fdLimit,
           GoodTable([fds |-> f, count |-> n, pos |-> p], S), NEW s,
           Dealt([fds |-> f, count |-> n, pos |-> p], s, i)
    PROVE  Dealt([[fds |-> f, count |-> n, pos |-> p] EXCEPT !.fds[i].revents = {}], s, i + 1)
<1> DEFINE t == [fds |-> f, count |-> n, pos |-> p]
           u == [t EXCEPT !.fds[i].revents = {}]
           z == [f[i] EXCEPT !.revents = {}]
<1>1. t.fds = f /\ t.count = n OBVIOUS
<1>2. u.fds = [f EXCEPT ![i] = z] /\ u.count = n OBVIOUS
<1>3. GoodTable(t, S) /\ Dealt(t, s, i) OBVIOUS
<1> HIDE DEF t, u
<1>4. f \in [1..fdLimit -> SlotType] /\ n \in 1..fdLimit BY <1>1, <1>3 DEF GoodTable
<1>5. f[i] \in SlotType BY <1>4
<1>6. z \in SlotType /\ z.revents = {} BY <1>5 DEF SlotType
<1> HIDE DEF z
<1>7. u.fds[i] = z /\ \A j \in 1..fdLimit : j # i => u.fds[j] = f[j]
    BY <1>2, <1>4, <1>6, Replaced
<1>8. ASSUME NEW j \in 1..n, j < i + 1, u.fds[j].revents # {}
      PROVE  j > 1 /\ s[u.fds[j].w] = "closing"
    <2>1. j # i BY <1>6, <1>7, <1>8
    <2>2. j < i /\ u.fds[j] = f[j] BY <1>4, <1>7, <1>8, <2>1
    <2> QED BY <1>1, <1>3, <1>8, <2>2 DEF Dealt
<1>9. Dealt(u, s, i + 1) BY <1>2, <1>8 DEF Dealt
<1> QED BY <1>9 DEF t, u

(* One slot changes; of the other connections none changes its state.        *)
LEMMA SlotDealt ==
    ASSUME Inv, UNCHANGED <<count, fdLimit>>, NEW i \in 1..count, NEW z \in SlotType,
           z.w = fds[i].w, fds' = [fds EXCEPT ![i] = z],
           NEW k \in Int, NEW l \in Int, Dealt(Table, st, k),
           \A j \in 2..count : j # i => st'[fds[j].w] = st[fds[j].w],
           \A j \in 1..count : (j < l /\ j # i) => j < k,
           (i < l /\ z.revents # {}) => i > 1 /\ st'[z.w] = "closing"
    PROVE  Dealt(Table', st', l)
<1>1. /\ Table.fds = fds /\ Table.count = count
      /\ (Table').fds = fds' /\ (Table').count = count
    BY DEF Table
<1>2. fds \in [1..fdLimit -> SlotType] /\ count \in 1..fdLimit /\ fdLimit \in Nat
    BY TableAssumption DEF Inv, TypeOK, TypeTable, SlotType
<1>3. fds'[i] = z /\ \A j \in 1..fdLimit : j # i => fds'[j] = fds[j] BY <1>2, Replaced
<1>4. ASSUME NEW j \in 1..count, j < l, fds'[j].revents # {}
      PROVE  j > 1 /\ st'[fds'[j].w] = "closing"
    <2>1. CASE j = i BY <1>3, <1>4, <2>1
    <2>2. CASE j # i
        <3>1. fds'[j] = fds[j] BY <1>2, <1>3, <2>2
        <3>2. j > 1 /\ st[fds[j].w] = "closing" BY <1>1, <1>4, <2>2, <3>1 DEF Dealt
        <3> QED BY <1>2, <2>2, <3>1, <3>2
    <2> QED BY <2>1, <2>2
<1> HIDE DEF Table
<1> QED BY <1>1, <1>4 DEF Dealt

(* The steps that serve a slot.                                              *)
LEMMA ServeDealt ==
    ASSUME Inv, ScanInv, NEW i \in 1..fdLimit,
           \/ ServePipe(i) \/ ServeClose(i) \/ ServeDeferred(i) \/ ServeConnected(i)
           \/ ServeAttempt(i) \/ ServeHandled(i)
    PROVE  ScanInv'
<1> DEFINE c == fds[i].w
<1>0. /\ TypeTable /\ TableAgrees /\ TypeConns /\ TypeThreads /\ fds[i] \in SlotType
      /\ GoodTable(Table, InSet) /\ fdLimit \in Nat /\ InSet \in SUBSET Conns
    BY InvGood DEF Inv, TypeOK, TypeTable, SlotType
<1>1. At(i) /\ UNCHANGED <<fdLimit, phase>>
    BY DEF ServePipe, ServeClose, ServeDeferred, ServeConnected, ServeAttempt, ServeHandled,
           Served, Kept
<1>2. /\ phase = "scan" /\ i \in scan..count /\ scan \in Nat /\ i \in 1..count
      /\ \A j \in scan..i - 1 : fds[j].revents = {}
    BY <1>0, <1>1 DEF At, TypeThreads, TypeTable
<1>3. Table.fds = fds /\ Table.count = count /\ Table.pos = pos BY DEF Table
<1>4. Dealt(Table, st, i)
    <2>1. Dealt(Table, st, scan) BY <1>2 DEF ScanInv, Passed
    <2>2. count \in Nat BY <1>0 DEF TypeTable
    <2> HIDE DEF Table
    <2> QED BY <1>2, <1>3, <2>1, <2>2 DEF Dealt
<1>5. ASSUME Dealt(Table', st', scan') PROVE ScanInv'
    BY <1>1, <1>2, <1>5 DEF ScanInv, Passed
<1>6. ASSUME c \in Conns PROVE i \in 2..count /\ pos[c] = i
    BY <1>0, <1>2, <1>6, TableAssumption DEF TableAgrees, TypeTable
<1>7. ASSUME c \in Conns, NEW s, st' = [st EXCEPT ![c] = s] \/ st' = st
      PROVE  AgreeBut(st', st, c) /\ \A j \in 2..count : j # i => st'[fds[j].w] = st[fds[j].w]
    BY <1>0, <1>6, <1>7 DEF TableAgrees, TypeConns, AgreeBut
<1>8. ASSUME NEW t, SetTable(t), Dealt(t, st', scan') PROVE Dealt(Table', st', scan')
    <2>1. (Table').fds = t.fds /\ (Table').count = t.count BY <1>8 DEF Table, SetTable
    <2> HIDE DEF Table
    <2> QED BY <1>8, <2>1 DEF Dealt
<1>9. ASSUME NEW z \in SlotType, z.w = fds[i].w, fds' = [fds EXCEPT ![i] = z], UNCHANGED count,
             \A j \in 2..count : j # i => st'[fds[j].w] = st[fds[j].w],
             z.revents # {} => i > 1 /\ st'[z.w] = "closing"
      PROVE  Dealt(Table', st', i + 1)
    <2>1. i \in Int /\ i + 1 \in Int BY <1>2
    <2>2. \A j \in 1..count : (j < i + 1 /\ j # i) => j < i BY <1>2
    <2> HIDE DEF Table
    <2> QED BY <1>1, <1>2, <1>4, <1>9, <2>1, <2>2, SlotDealt
<1>10. CASE ServePipe(i)
    <2> DEFINE z == [fds[i] EXCEPT !.revents = {}]
    <2>1. z \in SlotType /\ z.w = fds[i].w /\ z.revents = {} BY <1>0 DEF SlotType
    <2>2. fds' = [fds EXCEPT ![i] = z] /\ UNCHANGED <<count, st>> /\ scan' = i + 1
        BY <1>10 DEF ServePipe, connVars
    <2> HIDE DEF z
    <2>3. Dealt(Table', st', i + 1) BY <1>9, <2>1, <2>2
    <2> QED BY <1>5, <2>2, <2>3
<1>11. CASE ServeClose(i)
    <2>1. /\ c \in Conns /\ SetTable(RemoveFd(Table, c)) /\ st' = [st EXCEPT ![c] = "closed"]
          /\ scan' = i
        BY <1>11 DEF ServeClose, Served, Close, Enter, RetrySlot
    <2>0. AgreeBut(st', st, c) BY <1>7, <2>1
    <2>2. i <= Table.pos[c] BY <1>2, <1>3, <1>6, <2>1
    <2> HIDE DEF c
    <2>3. Dealt(RemoveFd(Table, c), st', i) BY <1>0, <1>2, <1>4, <2>0, <2>1, <2>2, RemoveDealt
    <2> QED BY <1>5, <1>8, <2>1, <2>3
<1>12. CASE ServeDeferred(i)
    <2>1. /\ c \in Conns /\ UNCHANGED count /\ st' = [st EXCEPT ![c] = "closing"]
          /\ fds' = [fds EXCEPT ![pos[c]].out = TRUE] /\ scan' = i + 1
        BY <1>12 DEF ServeDeferred, Served, Defer
    <2>2. pos[c] = i /\ i > 1 BY <1>6, <2>1
    <2> DEFINE z == [fds[i] EXCEPT !.out = TRUE]
    <2>3. z \in SlotType /\ z.w = fds[i].w BY <1>0 DEF SlotType
    <2>4. fds' = [fds EXCEPT ![i] = z] BY <2>1, <2>2
    <2>5. st'[c] = "closing" BY <1>0, <2>1 DEF TypeConns
    <2>6. \A j \in 2..count : j # i => st'[fds[j].w] = st[fds[j].w] BY <1>7, <2>1
    <2> HIDE DEF z
    <2>7. Dealt(Table', st', i + 1)
        BY <1>9, <2>1, <2>2, <2>3, <2>4, <2>5, <2>6
    <2> QED BY <1>5, <2>1, <2>7
<1>13. CASE ServeConnected(i) \/ ServeHandled(i)
    <2>1. /\ c \in Conns /\ UNCHANGED count /\ scan' = i + 1
          /\ \E s \in {"handshake", "established"} : st' = [st EXCEPT ![c] = s] \/ st' = st
        BY <1>13 DEF ServeConnected, ServeHandled, Served
    <2>2. PICK z \in SlotType : z.w = c /\ z.revents = {} /\ fds' = [fds EXCEPT ![i] = z]
        <3> DEFINE b == IF "OUT" \in fds[i].revents THEN waiting' # waiting ELSE fds[i].out
                   s0 == Slot(c, FALSE)
                   s1 == Slot(c, b)
        <3>1. b \in BOOLEAN BY <1>0 DEF SlotType
        <3>2. s0 \in SlotType /\ s0.w = c /\ s0.revents = {} BY <2>1 DEF Slot, SlotType
        <3>3. s1 \in SlotType /\ s1.w = c /\ s1.revents = {}
            <4> HIDE DEF b
            <4> QED BY <2>1, <3>1 DEF Slot, SlotType
        <3>4. CASE ServeConnected(i)
            <4>1. fds' = [fds EXCEPT ![i] = s0] BY <3>4 DEF ServeConnected
            <4> HIDE DEF s0
            <4> QED BY <3>2, <4>1
        <3>5. CASE ServeHandled(i)
            <4>1. fds' = [fds EXCEPT ![i] = s1] BY <1>0, <3>5 DEF ServeHandled, TypeTable
            <4> HIDE DEF s1
            <4> QED BY <3>3, <4>1
        <3> QED BY <1>13, <3>4, <3>5
    <2>3. \A j \in 2..count : j # i => st'[fds[j].w] = st[fds[j].w] BY <1>7, <2>1
    <2>4. Dealt(Table', st', i + 1) BY <1>9, <2>1, <2>2, <2>3
    <2> QED BY <1>5, <2>1, <2>4
<1>14. CASE ServeAttempt(i)
    <2> DEFINE gone == RemoveFd(Table, c)
               back == InsertFd(gone, c)
               H(t) == [t EXCEPT !.fds[i].revents = {}]
    <2>1. /\ c \in Conns /\ st[c] \in {"connecting", "handshake"}
          /\ \E s \in {"connecting", "resolving", "closed"} : st' = [st EXCEPT ![c] = s]
          /\ \/ SetTable(RemoveFd(back, c)) /\ scan' = i /\ back.fds[i].revents # {}
             \/ SetTable(H(back)) /\ scan' = i + 1
             \/ SetTable(H(gone)) /\ scan' = i + 1
        BY <1>14 DEF ServeAttempt, Served, Close, Resolve, Enter, RetrySlot
    <2>2. c \in InSet BY <2>1 DEF InSet, InTable
    <2>3. AgreeBut(st', st, c) /\ AgreeBut(st', st', c) /\ i <= Table.pos[c] /\ i \in 2..count
        BY <1>2, <1>3, <1>6, <1>7, <2>1 DEF AgreeBut
    <2> HIDE DEF c
    <2>4. GoodTable(gone, InSet \ {c}) /\ Dealt(gone, st', i)
        BY <1>0, <1>2, <1>4, <2>1, <2>3, RemoveGood, RemoveDealt
    <2>5. Table.pos[c] # NoPos BY <1>0, <2>2 DEF GoodTable, NoPos
    <2>6. gone.count = count - 1 /\ gone.count < fdLimit /\ count \in Nat
        <3>1. gone.count = Table.count - 1 BY <2>5 DEF RemoveFd
        <3> QED BY <1>0, <1>3, <3>1 DEF GoodTable
    <2>7. /\ InSet \ {c} \in SUBSET Conns /\ c \in Conns \ (InSet \ {c})
          /\ (InSet \ {c}) \cup {c} \in SUBSET Conns
        BY <1>0, <2>1
    <2>8. GoodTable(back, (InSet \ {c}) \cup {c}) /\ Dealt(back, st', i)
        <3> HIDE DEF gone
        <3> QED BY <1>0, <1>2, <2>3, <2>4, <2>6, <2>7, InsertGood, InsertDealt
    <2>9. Dealt(H(back), st', i + 1)
        <3> HIDE DEF gone
        <3> QED BY <1>0, <2>8, HandledDealt DEF InsertFd
    <2>10. Dealt(H(gone), st', i + 1) BY <1>0, <2>4, <2>5, HandledDealt DEF RemoveFd
    <2>11. Dealt(RemoveFd(back, c), st', i)
        <3>1. back.pos[c] = count
            <4>1. gone.pos \in [Conns -> 1..fdLimit \cup {NoPos}] BY <2>4 DEF GoodTable
            <4>2. back.pos = [gone.pos EXCEPT ![c] = gone.count + 1] BY DEF InsertFd
            <4> HIDE DEF gone, back
            <4> QED BY <2>1, <2>6, <4>1, <4>2
        <3> HIDE DEF back
        <3> QED BY <1>0, <1>2, <2>1, <2>3, <2>7, <2>8, <3>1, RemoveDealt
    <2> HIDE DEF H, back, gone
    <2> QED BY <1>5, <1>8, <2>1, <2>9, <2>10, <2>11
<1> QED BY <1>10, <1>11, <1>12, <1>13, <1>14

(* A connect attempt outside of the scan.                                    *)
LEMMA AttemptDealt ==
    ASSUME Inv, NEW c \in Conns, NEW t, NEW S \in SUBSET Conns, GoodTable(t, S), c \notin S,
           NEW s, AgreeBut(st', s, c), Dealt(t, s, fdLimit + 1), Attempt(t, c)
    PROVE  Dealt(Table', st', fdLimit + 1)
<1>0. fdLimit \in Nat /\ fdLimit + 1 \in Int BY InvGood
<1>1. CASE Full(t)
    <2>1. SetTable(RemoveFd(t, c)) BY <1>1 DEF Attempt, Close
    <2>2. Dealt(RemoveFd(t, c), st', fdLimit + 1) BY <1>0, RemoveDealt
    <2> QED BY <2>1, <2>2 DEF Dealt, SetTable, Table
<1>2. CASE ~Full(t)
    <2>1. SetTable(InsertFd(t, c)) BY <1>2 DEF Attempt
    <2>2. t.count < fdLimit BY <1>0, <1>2 DEF Full, GoodTable
    <2>3. Dealt(InsertFd(t, c), st', fdLimit + 1) BY <1>0, <2>2, InsertDealt
    <2> QED BY <2>1, <2>3 DEF Dealt, SetTable, Table
<1> QED BY <1>1, <1>2

(* The timers and the closures.                                              *)
LEMMA TimerDealt ==
    ASSUME Inv, NEW c \in Conns, Dealt(Table, st, fdLimit + 1), UNCHANGED fdLimit,
           \/ TimerClose(c) \/ TimerAttempt(c) \/ TimerLookup(c) \/ ValidityPing(c)
           \/ RunClosure(c)
    PROVE  Dealt(Table', st', fdLimit + 1)
<1>0. /\ TypeTable /\ TableAgrees /\ TypeConns
      /\ GoodTable(Table, InSet) /\ fdLimit \in Nat /\ InSet \in SUBSET Conns
      /\ fdLimit + 1 \in Int /\ fdLimit + 1 > Table.count
    BY InvGood DEF Inv, TypeOK, GoodTable
<1>1. ASSUME NEW s, st' = [st EXCEPT ![c] = s] PROVE AgreeBut(st', st, c)
    BY <1>0, <1>1 DEF TypeConns, AgreeBut
<1>2. CASE Close(Table, c)
    <2>1. SetTable(RemoveFd(Table, c)) /\ st' = [st EXCEPT ![c] = "closed"]
        BY <1>2 DEF Close, Enter
    <2>2. Dealt(RemoveFd(Table, c), st', fdLimit + 1) BY <1>0, <1>1, <2>1, RemoveDealt
    <2> QED BY <2>1, <2>2 DEF Dealt, SetTable, Table
<1>3. ASSUME Attempt(Table, c), st[c] \in {"idle", "resolving"}
      PROVE  Dealt(Table', st', fdLimit + 1)
    <2>1. c \notin InSet BY <1>3 DEF InSet, InTable
    <2>2. AgreeBut(st', st, c) BY <1>1, <1>3 DEF Attempt, Close, Enter
    <2> QED BY <1>0, <1>3, <2>1, <2>2, AttemptDealt
<1>4. CASE TimerAttempt(c) /\ Attempt(RemoveFd(Table, c), c)
    <2>1. AgreeBut(st', st, c) BY <1>1, <1>4 DEF Attempt, Close, Enter
    <2>2. GoodTable(RemoveFd(Table, c), InSet \ {c}) BY <1>0, RemoveGood
    <2>3. Dealt(RemoveFd(Table, c), st', fdLimit + 1) BY <1>0, <2>1, RemoveDealt
    <2>4. /\ InSet \ {c} \in SUBSET Conns /\ c \notin InSet \ {c}
          /\ AgreeBut(st', st', c)
        BY <1>0 DEF AgreeBut
    <2> QED BY <1>4, <2>2, <2>3, <2>4, AttemptDealt
<1>5. CASE Resolve(Table, c) /\ st[c] = "idle"
    <2>1. c \notin InSet BY <1>5 DEF InSet, InTable
    <2>2. AgreeBut(st', st, c) BY <1>1, <1>5 DEF Resolve, Enter
    <2>3. RemoveFd(Table, c) = Table BY <1>0, <2>1 DEF GoodTable, RemoveFd
    <2>4. Dealt(RemoveFd(Table, c), st', fdLimit + 1) BY <1>0, <2>2, RemoveDealt
    <2>5. Dealt(Table, st', fdLimit + 1) BY <2>3, <2>4
    <2>6. SetTable(Table) BY <1>5 DEF Resolve
    <2> QED BY <2>5, <2>6 DEF Dealt, SetTable, Table
<1>6. ASSUME c \in InSet, NEW b \in BOOLEAN, fds' = [fds EXCEPT ![pos[c]].out = b],
             UNCHANGED count,
             \/ st' = st \/ st' = [st EXCEPT ![c] = "closing"]
             \/ st[c] = "connecting" /\ st' = [st EXCEPT ![c] = "handshake"]
      PROVE  Dealt(Table', st', fdLimit + 1)
    <2> DEFINE i == pos[c]
               z == [fds[i] EXCEPT !.out = b]
    <2>1. i \in 2..count /\ i \in 1..fdLimit /\ i \in 1..count /\ fds[i].w = c
        BY <1>0, <1>6 DEF TableAgrees, InSet, TypeTable
    <2>2. fds[i] \in SlotType BY <1>0, <2>1 DEF TypeTable, SlotType
    <2>3. z \in SlotType /\ z.w = fds[i].w /\ z.revents = fds[i].revents
        BY <2>2 DEF SlotType
    <2>4. fds' = [fds EXCEPT ![i] = z] BY <1>6
    <2> HIDE DEF z
    <2>5. \A j \in 2..count : j # i => st'[fds[j].w] = st[fds[j].w]
        BY <1>0, <1>6, <2>1 DEF TableAgrees, TypeConns
    <2>6. (i < fdLimit + 1 /\ fds[i].revents # {}) => i > 1 /\ st[c] = "closing"
        BY <2>1 DEF Dealt, Table
    <2>7. st[c] = "closing" => st'[c] = "closing" BY <1>0, <1>6 DEF TypeConns
    <2>8. (i < fdLimit + 1 /\ z.revents # {}) => i > 1 /\ st'[z.w] = "closing"
        BY <2>1, <2>3, <2>6, <2>7
    <2> HIDE DEF i
    <2> QED BY <1>0, <1>6, <2>1, <2>3, <2>4, <2>5, <2>8, SlotDealt
<1>7. CASE TimerClose(c) /\ st[c] = "established" /\ Defer(c)
    <2>1. c \in InSet BY <1>7 DEF InSet, InTable
    <2> QED BY <1>6, <1>7, <2>1 DEF Defer
<1>8. CASE ValidityPing(c)
    <2>1. c \in InSet BY <1>8 DEF InSet, InTable, ValidityPing
    <2> QED BY <1>6, <1>8, <2>1 DEF ValidityPing
<1>9. CASE /\ st[c] = "connecting" /\ st' = [st EXCEPT ![c] = "handshake"]
           /\ fds' = [fds EXCEPT ![pos[c]].out = FALSE] /\ UNCHANGED count
    <2>1. c \in InSet BY <1>9 DEF InSet, InTable
    <2> QED BY <1>6, <1>9, <2>1
<1>10. CASE TimerClose(c) BY <1>2, <1>7, <1>10 DEF TimerClose
<1>11. CASE TimerAttempt(c) BY <1>4, <1>9, <1>11 DEF TimerAttempt
<1>12. CASE TimerLookup(c) BY <1>3, <1>12 DEF TimerLookup
<1>13. CASE RunClosure(c) BY <1>2, <1>3, <1>5, <1>13 DEF RunClosure
<1> QED BY <1>8, <1>10, <1>11, <1>12, <1>13

(* No step leaves revents behind the scan.                                   *)
LEMMA ScanStep == ASSUME Inv, ScanInv, [Next]_vars PROVE ScanInv'
<1>0. fdLimit \in Nat /\ TypeTable /\ TableAgrees /\ TypeThreads BY InvGood DEF Inv, TypeOK
<1>1. Table.fds = fds /\ Table.count = count /\ (Table').fds = fds' /\ (Table').count = count'
    BY DEF Table
<1> HIDE DEF Table
<1>2. ASSUME UNCHANGED <<fds, count, st, fdLimit>>, Passed' <= Passed, Passed' \in Int
      PROVE  ScanInv'
    <2>1. Passed \in Int /\ count \in Nat BY <1>0 DEF Passed, TypeThreads, TypeTable
    <2> QED BY <1>1, <1>2, <2>1 DEF ScanInv, Dealt
<1>3. ASSUME NEW i \in 1..fdLimit,
             \/ ServePipe(i) \/ ServeClose(i) \/ ServeDeferred(i) \/ ServeConnected(i)
             \/ ServeAttempt(i) \/ ServeHandled(i)
      PROVE  ScanInv'
    BY <1>3, ServeDealt
<1>4. CASE ScanEnd
    <2>1. /\ phase = "scan" /\ phase' = "closures" /\ UNCHANGED <<fds, count, st, fdLimit>>
          /\ \A i \in scan..count : fds[i].revents = {}
        BY <1>4 DEF ScanEnd, tableVars
    <2>2. scan \in Nat /\ count \in Nat BY <1>0 DEF TypeThreads, TypeTable
    <2>3. Dealt(Table, st, scan) BY <2>1 DEF ScanInv, Passed
    <2>4. \A i \in 1..count : i < scan \/ i \in scan..count BY <2>2
    <2> QED BY <1>1, <2>1, <2>3, <2>4 DEF ScanInv, Dealt
<1>5. CASE PollReturn
    <2>1. phase' = "scan" /\ scan' = 1 BY <1>5 DEF PollReturn
    <2> QED BY <2>1 DEF ScanInv, Passed, Dealt
<1>6. ASSUME NEW c \in Conns,
             \/ TimerClose(c) \/ TimerAttempt(c) \/ TimerLookup(c) \/ ValidityPing(c)
             \/ RunClosure(c)
      PROVE  ScanInv'
    <2>1. phase # "scan" /\ phase' # "scan" /\ UNCHANGED fdLimit
        BY <1>6 DEF TimerClose, TimerAttempt, TimerLookup, ValidityPing, RunClosure, Timers,
                    Rest, loopVars
    <2>2. Dealt(Table, st, fdLimit + 1) BY <2>1 DEF ScanInv, Passed
    <2>3. Dealt(Table', st', fdLimit + 1) BY <1>6, <2>1, <2>2, TimerDealt
    <2> QED BY <2>1, <2>3 DEF ScanInv, Passed
<1>7. CASE \/ EnterPoll \/ NextService \/ ForeignTest \/ ForeignIndex \/ UNCHANGED vars
           \/ \E c \in Conns : Network(c) \/ Send(c)
    <2>1. UNCHANGED <<fds, count, st, fdLimit, scan>>
        BY <1>7 DEF EnterPoll, NextService, ForeignTest, ForeignIndex, vars, Network, Send,
                    tableVars, connVars, loopVars, Quiet
    <2>2. phase' = "scan" <=> phase = "scan"
        BY <1>7 DEF EnterPoll, NextService, ForeignTest, ForeignIndex, vars, Network, Send,
                    loopVars, Quiet, Timers
    <2>3. Passed' = Passed /\ Passed \in Int
        BY <1>0, <2>1, <2>2 DEF Passed, TypeThreads
    <2> QED BY <1>2, <2>1, <2>3
<1>8. CASE ForeignWrite
    <2>1. /\ UNCHANGED <<count, st, phase, scan, fdLimit>>
          /\ fds' = IF frg.slot \in 1..count THEN [fds EXCEPT ![frg.slot].out = TRUE] ELSE fds
        BY <1>8 DEF ForeignWrite, Quiet, loopVars
    <2>2. Passed' = Passed /\ Passed \in Int BY <1>0, <2>1 DEF Passed, TypeThreads
    <2>3. CASE frg.slot \in 1..count
        <3> DEFINE i == frg.slot
                   z == [fds[i] EXCEPT !.out = TRUE]
        <3>1. i \in 1..fdLimit BY <1>0, <2>3 DEF TypeTable
        <3>2. fds[i] \in SlotType BY <1>0, <3>1 DEF TypeTable, SlotType
        <3>3. z \in SlotType /\ z.w = fds[i].w /\ z.revents = fds[i].revents BY <3>2 DEF SlotType
        <3>4. fds' = [fds EXCEPT ![i] = z] BY <2>1, <2>3
        <3> HIDE DEF z
        <3>5. (i < Passed /\ z.revents # {}) => i > 1 /\ st'[z.w] = "closing"
            BY <1>1, <2>1, <2>3, <3>3 DEF ScanInv, Dealt
        <3>6. Dealt(Table', st', Passed)
            BY <2>1, <2>2, <2>3, <3>3, <3>4, <3>5, SlotDealt DEF ScanInv
        <3> QED BY <2>2, <3>6 DEF ScanInv
    <2>4. CASE frg.slot \notin 1..count BY <1>2, <2>1, <2>2, <2>4
    <2> QED BY <2>3, <2>4
<1> QED BY <1>3, <1>4, <1>5, <1>6, <1>7, <1>8 DEF Next, Service, Scan, Timer, Foreign

(* What poll() reported is dealt with in the same pass over the table,       *)
(* whatever goes from it or comes back to it meanwhile, except with a        *)
(* connection that was told to close (_lws_plat_service_forced_tsi,          *)
(* lws_service_fd_tsi).                                                      *)
THEOREM ScanLeavesNothingCorrect == Spec => []ScanLeavesNothing
<1>1. Init => ScanInv
    <2> SUFFICES ASSUME Init PROVE ScanInv OBVIOUS
    <2>1. \A i \in 1..fdLimit : fds[i].revents = {} BY DEF Init, Slot
    <2>2. count = 1 /\ 1 \in 1..fdLimit BY TableAssumption DEF Init
    <2> QED BY <2>1, <2>2 DEF ScanInv, Dealt, Table
<1>2. Inv /\ ScanInv /\ [Next]_vars => ScanInv' BY ScanStep
<1>3. Inv /\ ScanInv => ScanLeavesNothing
    <2> SUFFICES ASSUME Inv, ScanInv, phase \in {"timers", "closures"},
                        NEW i \in 1..count, fds[i].revents # {}
                 PROVE  i > 1 /\ st[fds[i].w] = "closing"
        BY DEF ScanLeavesNothing
    <2>1. Passed = fdLimit + 1 BY DEF Passed
    <2>2. i < fdLimit + 1 BY InvGood DEF Inv, TypeOK, TypeTable
    <2>3. Table.fds = fds /\ Table.count = count BY DEF Table
    <2> HIDE DEF Table
    <2> QED BY <2>1, <2>2, <2>3 DEF ScanInv, Dealt
<1> QED BY InitInv, InvStep, <1>1, <1>2, <1>3, PTL DEF Spec

-----------------------------------------------------------------------------
(* A request for POLLOUT stays with the connection it was made for.          *)

AskInv ==
    /\ phase # "poll" => list = <<>>
    /\ \A c \in waiting : st[c] \in {"established", "closing"}
    /\ AskInOwnSlot

(* The connections of S have the same events in u as in t.                   *)
KeepsOut(u, t, S) == \A d \in S : u.fds[u.pos[d]].out = t.fds[t.pos[d]].out

(* The one that moves takes its events along.                                *)
LEMMA RemoveKeeps ==
    ASSUME fdLimit \in Nat, NEW t, NEW S \in SUBSET Conns, GoodTable(t, S), NEW c \in Conns
    PROVE  KeepsOut(RemoveFd(t, c), t, S \ {c})
<1>1. CASE c \notin S
    <2>1. RemoveFd(t, c) = t BY <1>1 DEF GoodTable, RemoveFd
    <2> QED BY <2>1 DEF KeepsOut
<1>2. CASE c \in S
    <2> DEFINE m == t.pos[c]
               n == t.count
               e == t.fds[n].w
               u == RemoveFd(t, c)
    <2>1. m \in 2..n /\ n \in 2..fdLimit /\ m # NoPos BY <1>2 DEF GoodTable, NoPos
    <2>2. e \in Conns /\ t.pos[e] = n BY <2>1 DEF GoodTable
    <2>3. /\ u.fds = [[t.fds EXCEPT ![m] = t.fds[n]] EXCEPT ![n] = Gone(@)]
          /\ u.pos = [t.pos EXCEPT ![e] = m, ![c] = NoPos]
        BY <2>1 DEF RemoveFd
    <2>4. /\ t.fds \in [1..fdLimit -> SlotType]
          /\ t.pos \in [Conns -> 1..fdLimit \cup {NoPos}]
        BY DEF GoodTable
    <2> HIDE DEF u
    <2>5. ASSUME NEW d \in S \ {c} PROVE u.fds[u.pos[d]] = t.fds[t.pos[d]]
        <3>1. d \in Conns /\ t.pos[d] \in 2..n /\ t.fds[t.pos[d]].w = d BY DEF GoodTable
        <3>2. CASE d = e
            <4>1. u.pos[d] = m BY <2>2, <2>3, <2>4, <3>2
            <4>2. m # n BY <2>1, <2>2, <3>2, <1>2 DEF GoodTable
            <4>3. u.fds[m] = t.fds[n] BY <2>1, <2>3, <2>4, <4>2
            <4> QED BY <2>2, <3>2, <4>1, <4>3
        <3>3. CASE d # e
            <4>1. u.pos[d] = t.pos[d] BY <2>3, <2>4, <3>1, <3>3
            <4>2. t.pos[d] # n /\ t.pos[d] # m BY <1>2, <2>1, <3>1, <3>3 DEF GoodTable
            <4> QED BY <2>1, <2>3, <2>4, <3>1, <4>1, <4>2
        <3> QED BY <3>2, <3>3
    <2> QED BY <2>5 DEF KeepsOut, u
<1> QED BY <1>1, <1>2

(* An insert touches the slot behind the end only.                           *)
LEMMA InsertKeeps ==
    ASSUME fdLimit \in Nat, NEW t, NEW S \in SUBSET Conns, GoodTable(t, S),
           NEW c \in Conns \ S, t.count < fdLimit
    PROVE  KeepsOut(InsertFd(t, c), t, S)
<1> DEFINE n == t.count + 1
           z == Slot(c, TRUE)
           u == InsertFd(t, c)
<1>1. n \in 2..fdLimit /\ t.count \in Nat BY DEF GoodTable
<1>2. u.fds = [t.fds EXCEPT ![n] = z] /\ u.pos = [t.pos EXCEPT ![c] = n] BY DEF InsertFd
<1>3. t.fds \in [1..fdLimit -> SlotType] /\ t.pos \in [Conns -> 1..fdLimit \cup {NoPos}]
    BY DEF GoodTable
<1> HIDE DEF u, z
<1>4. ASSUME NEW d \in S PROVE u.fds[u.pos[d]] = t.fds[t.pos[d]]
    <2>1. d \in Conns /\ d # c /\ t.pos[d] \in 2..t.count BY DEF GoodTable
    <2>2. u.pos[d] = t.pos[d] BY <1>2, <1>3, <2>1
    <2>3. t.pos[d] # n /\ t.pos[d] \in 1..fdLimit BY <1>1, <2>1
    <2> QED BY <1>2, <1>3, <2>2, <2>3
<1> QED BY <1>4 DEF KeepsOut, u

(* Clearing revents is not about events.                                     *)
LEMMA HandledKeeps ==
    ASSUME fdLimit \in Nat, NEW f, NEW n, NEW p, NEW S, NEW i \in 1..fdLimit,
           GoodTable([fds |-> f, count |-> n, pos |-> p], S)
    PROVE  KeepsOut([[fds |-> f, count |-> n, pos |-> p] EXCEPT !.fds[i].revents = {}],
                    [fds |-> f, count |-> n, pos |-> p], S)
<1> DEFINE t == [fds |-> f, count |-> n, pos |-> p]
           u == [t EXCEPT !.fds[i].revents = {}]
           z == [f[i] EXCEPT !.revents = {}]
<1>1. t.fds = f /\ t.count = n /\ t.pos = p OBVIOUS
<1>2. u.fds = [f EXCEPT ![i] = z] /\ u.pos = p OBVIOUS
<1>3. GoodTable(t, S) OBVIOUS
<1> HIDE DEF t, u
<1>4. f \in [1..fdLimit -> SlotType] /\ n \in 1..fdLimit BY <1>1, <1>3 DEF GoodTable
<1>5. f[i] \in SlotType BY <1>4
<1>6. z \in SlotType /\ z.out = f[i].out BY <1>5 DEF SlotType
<1> HIDE DEF z
<1>7. u.fds[i] = z /\ \A j \in 1..fdLimit : j # i => u.fds[j] = f[j]
    BY <1>2, <1>4, <1>6, Replaced
<1>8. \A d \in S : p[d] \in 1..fdLimit BY <1>1, <1>3, <1>4 DEF GoodTable
<1>9. KeepsOut(u, t, S) BY <1>1, <1>2, <1>6, <1>7, <1>8 DEF KeepsOut
<1> QED BY <1>9 DEF t, u

(* A step of the service thread outside of poll() that is about c: the       *)
(* others keep their requests, and c keeps its own or no longer needs it.    *)
LEMMA AskKept ==
    ASSUME Inv, AskInv, phase # "poll", UNCHANGED <<list, frg>>, NEW c \in Conns,
           \A d \in Conns \ {c} :
             /\ st'[d] = st[d] /\ (d \in waiting' => d \in waiting)
             /\ (d \in waiting' /\ d \notin strayed') => d \notin strayed
             /\ d \in InSet => fds'[pos'[d]].out = fds[pos[d]].out,
           \/ c \notin waiting'
           \/ c \in waiting /\ st'[c] = "closing"
           \/ c \in waiting /\ st'[c] = "established" /\ c \in strayed'
           \/ /\ c \in waiting /\ st'[c] = "established" /\ st[c] = "established"
              /\ \/ fds'[pos'[c]].out
                 \/ c \notin strayed /\ fds'[pos'[c]].out = fds[pos[c]].out,
           waiting' \subseteq Conns
    PROVE  AskInv'
<1>1. list = <<>> /\ list' = <<>> BY DEF AskInv
<1>2. \A x : ~Contains(list, x) /\ ~Contains(list', x) BY <1>1 DEF Contains
<1>3. \A d \in waiting' : st'[d] \in {"established", "closing"} BY DEF AskInv
<1>4. ASSUME NEW d \in waiting \ strayed, st[d] = "established"
      PROVE  fds[pos[d]].out \/ frg.w = d
    BY <1>2, <1>4 DEF AskInv, AskInOwnSlot
<1>5. ASSUME NEW d \in waiting' \ strayed', st'[d] = "established"
      PROVE  fds'[pos'[d]].out \/ frg'.w = d
    <2>1. CASE d = c BY <1>4, <1>5, <2>1
    <2>2. CASE d # c
        <3>1. d \in waiting \ strayed /\ st[d] = "established" /\ d \in InSet
            BY <1>5, <2>2 DEF InSet, InTable
        <3> QED BY <1>4, <2>2, <3>1
    <2> QED BY <2>1, <2>2
<1> QED BY <1>1, <1>3, <1>5 DEF AskInv, AskInOwnSlot

(* A step to a table where the others have kept their events, and c waits    *)
(* for nothing.                                                              *)
LEMMA AskMoved ==
    ASSUME Inv, AskInv, phase # "poll", UNCHANGED <<list, frg>>, NEW c \in Conns,
           NEW t, SetTable(t), KeepsOut(t, Table, InSet \ {c}),
           \A d \in Conns \ {c} : st'[d] = st[d],
           \/ waiting' = waiting \ {c} /\ strayed' = strayed \ {c}
           \/ UNCHANGED <<waiting, strayed>> /\ c \notin waiting
    PROVE  AskInv'
<1>1. ASSUME NEW d \in Conns \ {c}, d \in InSet PROVE fds'[pos'[d]].out = fds[pos[d]].out
    BY <1>1 DEF SetTable, KeepsOut, Table
<1>2. waiting' \subseteq Conns BY DEF Inv, TypeOK, TypeConns
<1>3. c \notin waiting' OBVIOUS
<1>4. \A d \in Conns \ {c} : /\ d \in waiting' => d \in waiting
                             /\ (d \in waiting' /\ d \notin strayed') => d \notin strayed
    OBVIOUS
<1> QED BY <1>1, <1>2, <1>3, <1>4, AskKept

(* A step that changes c's slot in place.                                    *)
LEMMA AskStays ==
    ASSUME Inv, AskInv, phase # "poll", UNCHANGED <<list, frg, pos, count>>,
           NEW c \in Conns, NEW i \in 1..fdLimit, fds[i].w = c,
           NEW z, fds' = [fds EXCEPT ![i] = z], z.out \in BOOLEAN,
           \A d \in Conns \ {c} :
             /\ st'[d] = st[d] /\ (d \in waiting' => d \in waiting)
             /\ (d \in waiting' /\ d \notin strayed') => d \notin strayed,
           \/ c \notin waiting'
           \/ c \in waiting /\ st'[c] = "closing"
           \/ c \in waiting /\ st'[c] = "established" /\ c \in strayed'
           \/ /\ c \in waiting /\ st'[c] = "established" /\ st[c] = "established"
              /\ z.out \/ (c \notin strayed /\ z.out = fds[i].out),
           waiting' \subseteq Conns
    PROVE  AskInv'
<1>0. TypeTable /\ TableAgrees /\ fdLimit \in Nat BY InvGood DEF Inv, TypeOK
<1>1. i \in 2..count /\ pos[c] = i
    <2>1. i # 1 /\ ~(i \in count + 1..fdLimit) BY <1>0, TableAssumption DEF TableAgrees
    <2> QED BY <1>0, <2>1 DEF TableAgrees, TypeTable
<1>2. fds'[i] = z /\ \A j \in 1..fdLimit : j # i => fds'[j] = fds[j] BY <1>0 DEF TypeTable
<1>3. ASSUME NEW d \in Conns \ {c}, d \in InSet PROVE fds'[pos'[d]].out = fds[pos[d]].out
    <2>1. pos[d] \in 1..fdLimit /\ fds[pos[d]].w = d
        BY <1>0, <1>3 DEF TableAgrees, InSet, TypeTable
    <2> QED BY <1>2, <2>1
<1>4. fds'[pos'[c]].out = z.out BY <1>1, <1>2
<1>5. \/ c \notin waiting'
      \/ c \in waiting /\ st'[c] = "closing"
      \/ c \in waiting /\ st'[c] = "established" /\ c \in strayed'
      \/ /\ c \in waiting /\ st'[c] = "established" /\ st[c] = "established"
         /\ \/ fds'[pos'[c]].out
            \/ c \notin strayed /\ fds'[pos'[c]].out = fds[pos[c]].out
    BY <1>1, <1>4
<1> QED BY <1>3, <1>5, AskKept

(* Closing, connecting again or waiting for a lookup, from whatever table.   *)
LEMMA AskAttempt ==
    ASSUME Inv, AskInv, phase # "poll", UNCHANGED <<list, frg>>, NEW c \in Conns,
           NEW t, NEW S \in SUBSET Conns, GoodTable(t, S), S \ {c} = InSet \ {c},
           KeepsOut(t, Table, InSet \ {c}),
           \/ Close(t, c)
           \/ c \notin waiting /\ c \notin S /\ Attempt(t, c)
           \/ c \notin waiting /\ Resolve(t, c)
    PROVE  AskInv'
<1>0. fdLimit \in Nat /\ TypeConns BY InvGood DEF Inv, TypeOK
<1>1. ASSUME NEW s, Enter(c, s) PROVE \A d \in Conns \ {c} : st'[d] = st[d]
    BY <1>0, <1>1 DEF Enter, TypeConns
<1>2. ASSUME NEW u, KeepsOut(u, t, InSet \ {c}) PROVE KeepsOut(u, Table, InSet \ {c})
    BY <1>2 DEF KeepsOut
<1>3. CASE Close(t, c)
    <2>1. KeepsOut(RemoveFd(t, c), t, S \ {c}) BY <1>0, RemoveKeeps
    <2>2. KeepsOut(RemoveFd(t, c), Table, InSet \ {c}) BY <1>2, <2>1
    <2>3. /\ SetTable(RemoveFd(t, c)) /\ Enter(c, "closed")
          /\ waiting' = waiting \ {c} /\ strayed' = strayed \ {c}
        BY <1>3 DEF Close
    <2>4. \A d \in Conns \ {c} : st'[d] = st[d] BY <1>1, <2>3
    <2> QED BY <2>2, <2>3, <2>4, AskMoved
<1>4. CASE c \notin waiting /\ Resolve(t, c)
    <2>1. SetTable(t) /\ Enter(c, "resolving") /\ UNCHANGED <<waiting, strayed>>
        BY <1>4 DEF Resolve
    <2>2. \A d \in Conns \ {c} : st'[d] = st[d] BY <1>1, <2>1
    <2> QED BY <1>4, <2>1, <2>2, AskMoved
<1>5. CASE c \notin waiting /\ c \notin S /\ Attempt(t, c) /\ ~Full(t)
    <2>1. SetTable(InsertFd(t, c)) /\ Enter(c, "connecting") /\ UNCHANGED <<waiting, strayed>>
        BY <1>5 DEF Attempt
    <2>2. t.count < fdLimit BY <1>0, <1>5 DEF Full, GoodTable
    <2>3. KeepsOut(InsertFd(t, c), t, S) BY <1>0, <1>5, <2>2, InsertKeeps
    <2>4. KeepsOut(InsertFd(t, c), Table, InSet \ {c})
        <3>1. S = InSet \ {c} BY <1>5
        <3> QED BY <1>2, <2>3, <3>1
    <2>5. \A d \in Conns \ {c} : st'[d] = st[d] BY <1>1, <2>1
    <2> QED BY <1>5, <2>1, <2>4, <2>5, AskMoved
<1>6. CASE Attempt(t, c) /\ Full(t) BY <1>3, <1>6 DEF Attempt
<1> QED BY <1>3, <1>4, <1>5, <1>6

(* The timers and the closures.                                              *)
LEMMA TimerAsk ==
    ASSUME Inv, AskInv, NEW c \in Conns,
           \/ TimerClose(c) \/ TimerAttempt(c) \/ TimerLookup(c) \/ ValidityPing(c)
           \/ RunClosure(c)
    PROVE  AskInv'
<1>0. /\ TypeTable /\ TableAgrees /\ TypeConns
      /\ GoodTable(Table, InSet) /\ fdLimit \in Nat /\ InSet \in SUBSET Conns
    BY InvGood DEF Inv, TypeOK
<1>1. phase # "poll" /\ UNCHANGED <<list, frg>>
    BY DEF TimerClose, TimerAttempt, TimerLookup, ValidityPing, RunClosure, Timers, Rest
<1>2. st[c] \notin {"established", "closing"} => c \notin waiting BY DEF AskInv
<1>3. KeepsOut(Table, Table, InSet \ {c}) BY DEF KeepsOut
<1>4. CASE \/ Close(Table, c)
           \/ st[c] \in {"idle", "resolving"} /\ (Attempt(Table, c) \/ Resolve(Table, c))
    <2>1. st[c] \in {"idle", "resolving"} => c \notin waiting /\ c \notin InSet
        BY <1>2 DEF InSet, InTable
    <2> QED BY <1>0, <1>1, <1>3, <1>4, <2>1, AskAttempt
<1>5. CASE st[c] = "connecting" /\ Attempt(RemoveFd(Table, c), c)
    <2>1. GoodTable(RemoveFd(Table, c), InSet \ {c}) BY <1>0, RemoveGood
    <2>2. KeepsOut(RemoveFd(Table, c), Table, InSet \ {c}) BY <1>0, RemoveKeeps
    <2>3. c \notin waiting BY <1>2, <1>5
    <2>4. /\ InSet \ {c} \in SUBSET Conns /\ c \notin InSet \ {c}
          /\ (InSet \ {c}) \ {c} = InSet \ {c}
        BY <1>0
    <2> QED BY <1>1, <1>5, <2>1, <2>2, <2>3, <2>4, AskAttempt
<1>6. ASSUME c \in InSet, NEW b \in BOOLEAN, fds' = [fds EXCEPT ![pos[c]].out = b],
             UNCHANGED <<count, pos, waiting>>, strayed' = strayed \/ strayed' = strayed \ {c},
             \/ st' = [st EXCEPT ![c] = "closing"]
             \/ c \notin waiting /\ st' = [st EXCEPT ![c] = "handshake"]
             \/ b = TRUE /\ st[c] = "established" /\ st' = st
      PROVE  AskInv'
    <2> DEFINE i == pos[c]
               z == [fds[i] EXCEPT !.out = b]
    <2>1. i \in 1..fdLimit /\ fds[i].w = c BY <1>0, <1>6 DEF TableAgrees, InSet, TypeTable
    <2>2. fds[i] \in SlotType BY <1>0, <2>1 DEF TypeTable, SlotType
    <2>3. z.out = b BY <2>2 DEF SlotType
    <2>4. fds' = [fds EXCEPT ![i] = z] BY <1>6
    <2>5. \A d \in Conns \ {c} : st'[d] = st[d] BY <1>0, <1>6 DEF TypeConns
    <2>6. st' = [st EXCEPT ![c] = "closing"] => st'[c] = "closing" BY <1>0 DEF TypeConns
    <2>7. waiting' \subseteq Conns BY <1>0, <1>6 DEF TypeConns
    <2> HIDE DEF z, i
    <2>8. \/ c \notin waiting'
          \/ c \in waiting /\ st'[c] = "closing"
          \/ c \in waiting /\ st'[c] = "established" /\ st[c] = "established" /\ z.out
        BY <1>6, <2>3, <2>6
    <2>9. \A d \in Conns \ {c} : /\ d \in waiting' => d \in waiting
                                 /\ (d \in waiting' /\ d \notin strayed') => d \notin strayed
        BY <1>6
    <2>10. UNCHANGED <<count, pos>> BY <1>6
    <2> QED BY <1>1, <2>1, <2>3, <2>4, <2>5, <2>7, <2>8, <2>9, <2>10, AskStays
<1>7. CASE st[c] = "established" /\ Defer(c)
    <2>1. c \in InSet BY <1>7 DEF InSet, InTable
    <2> QED BY <1>6, <1>7, <2>1 DEF Defer
<1>8. CASE ValidityPing(c)
    <2>1. c \in InSet BY <1>8 DEF InSet, InTable, ValidityPing
    <2> QED BY <1>6, <1>8, <2>1 DEF ValidityPing
<1>9. CASE /\ st[c] = "connecting" /\ st' = [st EXCEPT ![c] = "handshake"]
           /\ fds' = [fds EXCEPT ![pos[c]].out = FALSE]
           /\ UNCHANGED <<count, pos, net, waiting, reported, strayed>>
    <2>1. c \in InSet BY <1>9 DEF InSet, InTable
    <2> QED BY <1>2, <1>6, <1>9, <2>1
<1>10. CASE TimerClose(c) BY <1>4, <1>7, <1>10 DEF TimerClose
<1>11. CASE TimerAttempt(c) BY <1>5, <1>9, <1>11 DEF TimerAttempt
<1>12. CASE TimerLookup(c) BY <1>4, <1>12 DEF TimerLookup
<1>13. CASE RunClosure(c) BY <1>4, <1>13 DEF RunClosure
<1> QED BY <1>8, <1>10, <1>11, <1>12, <1>13

(* The steps that serve a slot.                                              *)
LEMMA ServeAsk ==
    ASSUME Inv, AskInv, NEW i \in 1..fdLimit,
           \/ ServePipe(i) \/ ServeClose(i) \/ ServeDeferred(i) \/ ServeConnected(i)
           \/ ServeAttempt(i) \/ ServeHandled(i)
    PROVE  AskInv'
<1> DEFINE c == fds[i].w
<1>0. /\ TypeTable /\ TableAgrees /\ TypeConns /\ fds[i] \in SlotType
      /\ GoodTable(Table, InSet) /\ fdLimit \in Nat /\ InSet \in SUBSET Conns
    BY InvGood DEF Inv, TypeOK, TypeTable, SlotType
<1>1. phase # "poll" /\ UNCHANGED <<list, frg, phase>>
    BY DEF ServePipe, ServeClose, ServeDeferred, ServeConnected, ServeAttempt, ServeHandled,
           Served, At, Kept
<1>2. st[c] \notin {"established", "closing"} => c \notin waiting BY DEF AskInv
<1>3. KeepsOut(Table, Table, InSet \ {c}) BY DEF KeepsOut
<1>4. CASE ServePipe(i)
    <2>1. /\ fds' = [fds EXCEPT ![i].revents = {}]
          /\ UNCHANGED <<count, pos, st, waiting, strayed>>
        BY <1>4 DEF ServePipe, connVars
    <2>2. \A j \in 1..fdLimit : fds'[j].out = fds[j].out BY <1>0, <2>1 DEF TypeTable
    <2>3. list = <<>> /\ list' = <<>> BY <1>1 DEF AskInv
    <2>4. ASSUME NEW d \in waiting \ strayed, st[d] = "established"
          PROVE  fds'[pos[d]].out = fds[pos[d]].out
        <3>1. d \in Conns /\ pos[d] \in 1..fdLimit
            BY <1>0, <2>4 DEF TypeConns, TableAgrees, InTable, TypeTable
        <3> QED BY <2>2, <3>1
    <2> QED BY <1>1, <2>1, <2>3, <2>4 DEF AskInv, AskInOwnSlot
<1>5. CASE ServeClose(i)
    <2>1. c \in Conns /\ Close(Table, c) BY <1>5 DEF ServeClose, Served
    <2> HIDE DEF c
    <2> QED BY <1>0, <1>1, <1>3, <2>1, AskAttempt
<1>6. CASE ServeDeferred(i)
    <2>1. /\ c \in Conns /\ st[c] = "established" /\ st' = [st EXCEPT ![c] = "closing"]
          /\ fds' = [fds EXCEPT ![pos[c]].out = TRUE]
          /\ UNCHANGED <<count, pos, waiting, strayed>>
        BY <1>6 DEF ServeDeferred, Served, Defer
    <2> DEFINE k == pos[c]
               z == [fds[k] EXCEPT !.out = TRUE]
    <2>2. k \in 1..fdLimit /\ fds[k].w = c BY <1>0, <2>1 DEF TableAgrees, InTable, TypeTable
    <2>3. fds[k] \in SlotType BY <1>0, <2>2 DEF TypeTable, SlotType
    <2>4. z.out = TRUE /\ fds' = [fds EXCEPT ![k] = z] BY <2>1, <2>3 DEF SlotType
    <2>5. st'[c] = "closing" /\ \A d \in Conns \ {c} : st'[d] = st[d]
        BY <1>0, <2>1 DEF TypeConns
    <2>6. waiting' \subseteq Conns BY <1>0, <2>1 DEF TypeConns
    <2>7. /\ c \notin waiting' \/ (c \in waiting /\ st'[c] = "closing")
          /\ \A d \in Conns \ {c} : /\ st'[d] = st[d] /\ (d \in waiting' => d \in waiting)
                                    /\ (d \in waiting' /\ d \notin strayed') => d \notin strayed
        BY <2>1, <2>5
    <2>8. UNCHANGED <<count, pos>> /\ c \in Conns BY <2>1
    <2> HIDE DEF c, z, k
    <2> QED BY <1>1, <2>2, <2>4, <2>5, <2>6, <2>7, <2>8, AskStays
<1>7. CASE ServeConnected(i)
    <2> DEFINE z == Slot(c, FALSE)
    <2>1. /\ c \in Conns /\ st[c] = "connecting" /\ st' = [st EXCEPT ![c] = "handshake"]
          /\ fds' = [fds EXCEPT ![i] = z] /\ UNCHANGED <<count, pos, waiting, strayed>>
        BY <1>7 DEF ServeConnected, Served
    <2>2. z.out = FALSE BY DEF Slot
    <2>3. c \notin waiting' /\ waiting' \subseteq Conns BY <1>0, <1>2, <2>1 DEF TypeConns
    <2>4. \A d \in Conns \ {c} : st'[d] = st[d] BY <1>0, <2>1 DEF TypeConns
    <2>5. c = fds[i].w OBVIOUS
    <2> HIDE DEF z, c
    <2> QED BY <1>1, <2>1, <2>2, <2>3, <2>4, <2>5, AskStays
<1>8. CASE ServeHandled(i)
    <2> DEFINE b == IF "OUT" \in fds[i].revents THEN waiting' # waiting ELSE fds[i].out
               z == Slot(c, b)
    <2>1. /\ c \in Conns /\ UNCHANGED <<count, pos>> /\ strayed' = strayed \cap waiting'
          /\ st' = st \/ (st[c] = "handshake" /\ st' = [st EXCEPT ![c] = "established"])
          /\ waiting' = IF "OUT" \in fds[i].revents /\ st[c] = "established"
                        THEN waiting \ {c} ELSE waiting
        BY <1>8 DEF ServeHandled, Served
    <2>2. fds' = [fds EXCEPT ![i] = z] BY <1>0, <1>8 DEF ServeHandled, TypeTable
    <2>3. b \in BOOLEAN BY <1>0 DEF SlotType
    <2>4. "OUT" \notin fds[i].revents => b = fds[i].out OBVIOUS
    <2> HIDE DEF b
    <2>5. z.out = b BY DEF Slot
    <2>6. waiting' \subseteq Conns /\ \A d \in Conns \ {c} : st'[d] = st[d]
        BY <1>0, <2>1 DEF TypeConns
    <2>7. \/ c \notin waiting'
          \/ c \in waiting /\ st'[c] = "closing"
          \/ c \in waiting /\ st'[c] = "established" /\ c \in strayed'
          \/ /\ c \in waiting /\ st'[c] = "established" /\ st[c] = "established"
             /\ z.out \/ (c \notin strayed /\ z.out = fds[i].out)
        <3>1. CASE c \notin waiting BY <2>1, <3>1
        <3>2. CASE c \in waiting
            <4>1. st[c] \in {"established", "closing"} /\ st' = st BY <1>2, <2>1, <3>2
            <4> QED BY <2>1, <2>4, <2>5, <3>2, <4>1
        <3> QED BY <3>1, <3>2
    <2>8. c = fds[i].w OBVIOUS
    <2>9. \A d \in Conns \ {c} : /\ d \in waiting' => d \in waiting
                                 /\ (d \in waiting' /\ d \notin strayed') => d \notin strayed
        BY <2>1
    <2> HIDE DEF z, c
    <2> QED BY <1>1, <2>1, <2>2, <2>3, <2>5, <2>6, <2>7, <2>8, <2>9, AskStays
<1>9. CASE ServeAttempt(i)
    <2> DEFINE gone == RemoveFd(Table, c)
               back == InsertFd(gone, c)
               H(t) == [t EXCEPT !.fds[i].revents = {}]
    <2>1. /\ c \in Conns /\ st[c] \in {"connecting", "handshake"}
          /\ \/ Close(back, c)
             \/ UNCHANGED <<waiting, strayed>> /\ SetTable(H(back)) /\ Enter(c, "connecting")
             \/ Resolve(H(gone), c)
        BY <1>9 DEF ServeAttempt, Served
    <2>2. c \in InSet /\ c \notin waiting BY <1>2, <2>1 DEF InSet, InTable
    <2> HIDE DEF c
    <2>3. GoodTable(gone, InSet \ {c}) /\ KeepsOut(gone, Table, InSet \ {c})
        BY <1>0, <2>1, RemoveGood, RemoveKeeps
    <2>4. Table.pos[c] # NoPos BY <1>0, <2>2 DEF GoodTable, NoPos
    <2>5. gone.count < fdLimit
        <3>1. gone.count = Table.count - 1 BY <2>4 DEF RemoveFd
        <3> QED BY <1>0, <3>1 DEF GoodTable
    <2>6. /\ InSet \ {c} \in SUBSET Conns /\ c \in Conns \ (InSet \ {c})
          /\ (InSet \ {c}) \cup {c} \in SUBSET Conns
          /\ ((InSet \ {c}) \cup {c}) \ {c} = InSet \ {c} /\ (InSet \ {c}) \ {c} = InSet \ {c}
        BY <1>0, <2>1
    <2>7. /\ GoodTable(back, (InSet \ {c}) \cup {c})
          /\ KeepsOut(back, gone, InSet \ {c})
        <3> HIDE DEF gone
        <3> QED BY <1>0, <2>3, <2>5, <2>6, InsertGood, InsertKeeps
    <2>8. KeepsOut(H(back), back, (InSet \ {c}) \cup {c})
        <3> HIDE DEF gone
        <3> QED BY <1>0, <2>7, HandledKeeps DEF InsertFd
    <2>9. /\ KeepsOut(H(gone), gone, InSet \ {c}) /\ GoodTable(H(gone), InSet \ {c})
        BY <1>0, <2>3, <2>4, HandledKeeps, HandledGood DEF RemoveFd
    <2> HIDE DEF H, back, gone
    <2>10. /\ KeepsOut(back, Table, InSet \ {c}) /\ KeepsOut(H(back), Table, InSet \ {c})
           /\ KeepsOut(H(gone), Table, InSet \ {c})
        BY <2>3, <2>7, <2>8, <2>9 DEF KeepsOut
    <2>11. CASE Close(back, c) BY <1>0, <1>1, <2>1, <2>6, <2>7, <2>10, <2>11, AskAttempt
    <2>12. CASE Resolve(H(gone), c)
        BY <1>0, <1>1, <2>1, <2>2, <2>6, <2>9, <2>10, <2>12, AskAttempt
    <2>13. CASE /\ UNCHANGED <<waiting, strayed>> /\ SetTable(H(back))
                /\ Enter(c, "connecting")
        <3>1. \A d \in Conns \ {c} : st'[d] = st[d] BY <1>0, <2>13 DEF Enter, TypeConns
        <3> QED BY <1>1, <2>1, <2>2, <2>10, <2>13, <3>1, AskMoved
    <2> QED BY <2>1, <2>11, <2>12, <2>13
<1> QED BY <1>4, <1>5, <1>6, <1>7, <1>8, <1>9

(* poll() returns: the list is worked off.                                   *)
LEMMA PollAsk == ASSUME Inv, AskInv, PollReturn PROVE AskInv'
<1>0. TypeTable /\ TableAgrees /\ TypeConns /\ fdLimit \in Nat BY InvGood DEF Inv, TypeOK
<1>1. /\ list' = <<>> /\ UNCHANGED <<pos, st, waiting, strayed, frg>>
      /\ fds' = [i \in 1..fdLimit |->
            IF i > count THEN Slot(None, FALSE)
            ELSE [w |-> fds[i].w, out |-> fds[i].out \/ Listed(i),
                  revents |-> IF fds[i].w = Pipe THEN {e \in {"IN"} : list # <<>>}
                                                 ELSE reported'[fds[i].w]]]
    BY DEF PollReturn
<1>2. ASSUME NEW i \in 2..count PROVE fds'[i].out = (fds[i].out \/ Listed(i))
    <2>1. fds[i].w \in Conns /\ i \in 1..fdLimit /\ ~(i > count)
        BY <1>0 DEF TableAgrees, TypeTable
    <2>2. fds[i].w # Pipe BY <2>1, TableAssumption
    <2> DEFINE b == fds[i].out \/ Listed(i)
    <2>3. fds'[i] = [w |-> fds[i].w, out |-> b, revents |-> reported'[fds[i].w]]
        BY <1>1, <2>1, <2>2
    <2>4. fds'[i].out = b
        <3> HIDE DEF b
        <3> QED BY <2>3
    <2> QED BY <2>4
<1>3. ASSUME NEW d \in waiting \ strayed, st[d] = "established"
      PROVE  fds'[pos[d]].out \/ frg.w = d
    <2>1. d \in Conns /\ pos[d] \in 2..count BY <1>0, <1>3 DEF TypeConns, TableAgrees, InTable
    <2>2. fds[pos[d]].out \/ Listed(pos[d]) \/ frg.w = d
        BY <1>3 DEF AskInv, AskInOwnSlot, Listed
    <2> QED BY <1>2, <2>1, <2>2
<1>4. \A d \in waiting : st[d] \in {"established", "closing"} BY DEF AskInv
<1> QED BY <1>1, <1>3, <1>4 DEF AskInv, AskInOwnSlot

(* The thread in callWritable: until its request is in the list or in a slot *)
(* it is on the way, and a write to another slot is noted.                   *)
LEMMA ForeignAsk == ASSUME Inv, AskInv, Foreign PROVE AskInv'
<1>0. /\ TypeTable /\ TableAgrees /\ TypeConns /\ TypeThreads /\ fdLimit \in Nat
    BY InvGood DEF Inv, TypeOK
<1>1. UNCHANGED <<count, pos, st, waiting, phase>>
    BY DEF Foreign, ForeignTest, ForeignIndex, ForeignWrite, Quiet, loopVars
<1>2. \A d \in waiting : st[d] \in {"established", "closing"} /\ d \in Conns
    BY <1>0 DEF AskInv, TypeConns
<1>3. CASE ForeignTest /\ phase = "poll"
    <2>1. /\ UNCHANGED <<fds, strayed>> /\ frg.at = "test"
          /\ \E s \in Position(frg.w) : list' = Append(list, s)
        BY <1>3 DEF ForeignTest
    <2>2. PICK s \in Position(frg.w) : list' = Append(list, s) BY <2>1
    <2>3. frg.w \in Conns BY <1>0, <2>1 DEF TypeThreads, Idle
    <2>4. s \in 1..fdLimit \cup {NoPos} BY <1>0, <2>3 DEF Position, TypeTable
    <2>5. list \in Seq(1..fdLimit \cup {NoPos}) BY <1>0 DEF TypeThreads
    <2>6. \A x : Contains(list, x) => Contains(list', x) BY <2>2, <2>4, <2>5 DEF Contains
    <2>7. Contains(list', s) BY <2>2, <2>4, <2>5 DEF Contains
    <2>8. st[frg.w] = "established" => s = pos[frg.w] BY <2>2 DEF Position
    <2>9. ASSUME NEW d \in waiting \ strayed, st[d] = "established"
          PROVE  fds[pos[d]].out \/ Contains(list', pos[d])
        <3>1. CASE frg.w = d BY <2>7, <2>8, <2>9, <3>1
        <3>2. CASE frg.w # d BY <2>6, <2>9, <3>2 DEF AskInv, AskInOwnSlot
        <3> QED BY <3>1, <3>2
    <2> QED BY <1>1, <1>2, <1>3, <2>1, <2>9 DEF AskInv, AskInOwnSlot
<1>4. CASE (ForeignTest /\ phase # "poll") \/ ForeignIndex
    <2>1. /\ UNCHANGED <<fds, strayed, list>> /\ frg.at \in {"test", "index"}
          /\ \/ frg' = [frg EXCEPT !.at = "index"]
             \/ \E s \in Position(frg.w) : frg' = [frg EXCEPT !.at = "write", !.slot = s]
        BY <1>4 DEF ForeignTest, ForeignIndex
    <2>2. frg \in [at : {"test", "index", "write"}, w : Conns, slot : 1..fdLimit \cup {NoPos}]
        <3>1. frg # Idle
            <4>1. Idle.at = "idle" BY DEF Idle
            <4> QED BY <2>1, <4>1
        <3> QED BY <1>0, <3>1 DEF TypeThreads
    <2>3. frg'.w = frg.w BY <2>1, <2>2
    <2> QED BY <1>1, <2>1, <2>3 DEF AskInv, AskInOwnSlot
<1>5. CASE ForeignWrite
    <2>1. /\ fds' = IF frg.slot \in 1..count THEN [fds EXCEPT ![frg.slot].out = TRUE] ELSE fds
          /\ strayed' = IF frg.w \in waiting /\ frg.slot # pos[frg.w]
                        THEN strayed \cup {frg.w} ELSE strayed
          /\ UNCHANGED list
        BY <1>5 DEF ForeignWrite
    <2>2. \A j \in 1..fdLimit : /\ fds[j].out => fds'[j].out
                                /\ frg.slot = j /\ j <= count => fds'[j].out
        <3>1. \A j \in 1..fdLimit : fds[j] \in SlotType BY <1>0 DEF TypeTable, SlotType
        <3>2. CASE frg.slot \in 1..count
            <4> DEFINE z == [fds[frg.slot] EXCEPT !.out = TRUE]
            <4>1. frg.slot \in 1..fdLimit BY <1>0, <3>2 DEF TypeTable
            <4>2. z.out = TRUE BY <3>1, <4>1 DEF SlotType
            <4>3. fds' = [fds EXCEPT ![frg.slot] = z] BY <2>1, <3>2
            <4> HIDE DEF z
            <4>4. fds'[frg.slot] = z /\ \A j \in 1..fdLimit : j # frg.slot => fds'[j] = fds[j]
                BY <1>0, <4>1, <4>3 DEF TypeTable
            <4> QED BY <4>2, <4>4
        <3>3. CASE frg.slot \notin 1..count BY <2>1, <3>3
        <3> QED BY <3>2, <3>3
    <2>3. ASSUME NEW d \in waiting \ strayed', st[d] = "established"
          PROVE  fds'[pos[d]].out \/ Contains(list, pos[d])
        <3>1. pos[d] \in 2..count /\ pos[d] \in 1..fdLimit
            BY <1>0, <1>2, <2>3 DEF TableAgrees, InTable, TypeTable
        <3>2. CASE frg.w = d
            <4>1. frg.slot = pos[d] BY <2>1, <2>3, <3>2
            <4> QED BY <2>2, <3>1, <4>1
        <3>3. CASE frg.w # d
            <4>1. fds[pos[d]].out \/ Contains(list, pos[d])
                BY <2>1, <2>3, <3>3 DEF AskInv, AskInOwnSlot
            <4> QED BY <2>2, <3>1, <4>1
        <3> QED BY <3>2, <3>3
    <2>4. phase # "poll" => list = <<>> BY DEF AskInv
    <2> QED BY <1>1, <1>2, <2>1, <2>3, <2>4 DEF AskInv, AskInOwnSlot
<1> QED BY <1>3, <1>4, <1>5 DEF Foreign

(* No step loses a request.                                                  *)
LEMMA AskStep == ASSUME Inv, AskInv, [Next]_vars PROVE AskInv'
<1>1. ASSUME NEW i \in 1..fdLimit,
             \/ ServePipe(i) \/ ServeClose(i) \/ ServeDeferred(i) \/ ServeConnected(i)
             \/ ServeAttempt(i) \/ ServeHandled(i)
      PROVE  AskInv'
    BY <1>1, ServeAsk
<1>2. ASSUME NEW c \in Conns,
             \/ TimerClose(c) \/ TimerAttempt(c) \/ TimerLookup(c) \/ ValidityPing(c)
             \/ RunClosure(c)
      PROVE  AskInv'
    BY <1>2, TimerAsk
<1>3. CASE \/ EnterPoll \/ ScanEnd \/ NextService \/ UNCHANGED vars
           \/ \E c \in Conns : Network(c)
    <2>1. UNCHANGED <<fds, pos, st, waiting, strayed, list, frg>>
        BY <1>3 DEF EnterPoll, ScanEnd, NextService, vars, Network, tableVars, connVars
    <2>2. phase' # "poll" => phase # "poll"
        BY <1>3 DEF EnterPoll, ScanEnd, NextService, vars, Network, loopVars
    <2> QED BY <2>1, <2>2 DEF AskInv, AskInOwnSlot
<1>4. ASSUME NEW c \in Conns, Send(c) PROVE AskInv'
    <2>1. /\ UNCHANGED <<fds, pos, st, strayed, list, phase>> /\ waiting' = waiting \cup {c}
          /\ st[c] \in {"established", "closing"} /\ frg.w = None /\ frg'.w = c
        BY <1>4 DEF Send, Quiet, loopVars, Idle
    <2>2. None \notin waiting BY TableAssumption DEF Inv, TypeOK, TypeConns
    <2> QED BY <2>1, <2>2 DEF AskInv, AskInOwnSlot
<1>5. CASE PollReturn BY <1>5, PollAsk
<1>6. CASE Foreign BY <1>6, ForeignAsk
<1> QED BY <1>1, <1>2, <1>3, <1>4, <1>5, <1>6 DEF Next, Service, Scan, Timer

(* A frame that waits has its request in its own slot, in the list, or on    *)
(* the way, unless its slot was given to another between the sender's look   *)
(* and its write (_lws_change_pollfd, __remove_wsi_socket_from_fds).         *)
THEOREM AskInOwnSlotCorrect == Spec => []AskInOwnSlot
<1>1. Init => AskInv BY DEF Init, AskInv, AskInOwnSlot
<1>2. Inv /\ AskInv /\ [Next]_vars => AskInv' BY AskStep
<1>3. AskInv => AskInOwnSlot BY DEF AskInv
<1> QED BY InitInv, InvStep, <1>1, <1>2, <1>3, PTL DEF Spec
=============================================================================
