---------------------------- MODULE GroupsProofs ----------------------------
(***************************************************************************)
(* Proofs about the shared file and the groups in it, for any number of    *)
(* processes, groups, names, agents and deaths, and for any mixture of     *)
(* versions the file may have had.                                         *)
(***************************************************************************)
EXTENDS Groups, SequenceTheorems, TLAPS

(* The objects that a list of statements leaves behind.                    *)
Cover(s) == UNION {Makes[s[i]] : i \in 1 .. Len(s)}

LEMMA MakesAre ==
  /\ DOMAIN Makes = {"messages", "protocol", "groups", "keyed", "members", "broadcasts", "requests"}
  /\ Makes["messages"] = {"messages", "protocol"} /\ Makes["protocol"] = {"protocol"}
  /\ Makes["groups"] = {"groups"} /\ Makes["keyed"] = {"members"} /\ Makes["members"] = {"members"}
  /\ Makes["broadcasts"] = {"broadcasts"} /\ Makes["requests"] = {"requests"}
BY DEF Makes

LEMMA CoverOne ==
  ASSUME NEW x \in DOMAIN Makes
  PROVE  <<x>> \in Seq(DOMAIN Makes) /\ Cover(<<x>>) = Makes[x]
<1>1. <<x>> \in Seq(DOMAIN Makes) /\ Len(<<x>>) = 1 /\ <<x>>[1] = x
  OBVIOUS
<1>2. {Makes[<<x>>[i]] : i \in 1 .. 1} = {Makes[x]}
  BY <1>1
<1>3. QED
  BY <1>1, <1>2 DEF Cover

LEMMA CoverConcat ==
  ASSUME NEW s \in Seq(DOMAIN Makes), NEW t \in Seq(DOMAIN Makes)
  PROVE  s \o t \in Seq(DOMAIN Makes) /\ Cover(s \o t) = Cover(s) \cup Cover(t)
<1>1. /\ s \o t \in Seq(DOMAIN Makes)
      /\ Len(s \o t) = Len(s) + Len(t)
      /\ \A i \in 1 .. Len(s) : (s \o t)[i] = s[i]
      /\ \A i \in 1 .. Len(t) : (s \o t)[Len(s) + i] = t[i]
      /\ Len(s) \in Nat /\ Len(t) \in Nat
  OBVIOUS
<1>2. ASSUME NEW x, x \in Cover(s \o t) PROVE x \in Cover(s) \cup Cover(t)
  <2>1. PICK i \in 1 .. Len(s) + Len(t) : x \in Makes[(s \o t)[i]]
    BY <1>1, <1>2 DEF Cover
  <2>2. CASE i <= Len(s)
    BY <1>1, <2>1, <2>2 DEF Cover
  <2>3. CASE i > Len(s)
    <3>1. i - Len(s) \in 1 .. Len(t) /\ i = Len(s) + (i - Len(s))
      BY <1>1, <2>3
    <3>2. (s \o t)[i] = t[i - Len(s)]
      BY <1>1, <3>1
    <3>3. QED
      BY <2>1, <3>1, <3>2 DEF Cover
  <2>4. QED
    BY <1>1, <2>2, <2>3
<1>3. ASSUME NEW x, x \in Cover(s) PROVE x \in Cover(s \o t)
  <2>1. PICK i \in 1 .. Len(s) : x \in Makes[s[i]]
    BY <1>3 DEF Cover
  <2>2. i \in 1 .. Len(s \o t) /\ (s \o t)[i] = s[i]
    BY <1>1, <2>1
  <2>3. QED
    BY <2>1, <2>2 DEF Cover
<1>4. ASSUME NEW x, x \in Cover(t) PROVE x \in Cover(s \o t)
  <2>1. PICK i \in 1 .. Len(t) : x \in Makes[t[i]]
    BY <1>4 DEF Cover
  <2>2. Len(s) + i \in 1 .. Len(s \o t) /\ (s \o t)[Len(s) + i] = t[i]
    BY <1>1, <2>1
  <2>3. QED
    BY <2>1, <2>2 DEF Cover
<1>5. QED
  BY <1>1, <1>2, <1>3, <1>4

(* What the head of the list does, and what is left after it.              *)
LEMMA CoverTail ==
  ASSUME NEW s \in Seq(DOMAIN Makes), s # <<>>
  PROVE  /\ Head(s) \in DOMAIN Makes /\ Tail(s) \in Seq(DOMAIN Makes)
         /\ Cover(s) = Makes[Head(s)] \cup Cover(Tail(s))
<1>1. /\ Head(s) \in DOMAIN Makes /\ Tail(s) \in Seq(DOMAIN Makes)
      /\ s = <<Head(s)>> \o Tail(s)
  OBVIOUS
<1>2. <<Head(s)>> \in Seq(DOMAIN Makes) /\ Cover(<<Head(s)>>) = Makes[Head(s)]
  BY <1>1, CoverOne
<1>3. Cover(<<Head(s)>> \o Tail(s)) = Makes[Head(s)] \cup Cover(Tail(s))
  BY <1>1, <1>2, CoverConcat
<1>4. QED
  BY <1>1, <1>3, Zenon

LEMMA CoverEmpty == <<>> \in Seq(DOMAIN Makes) /\ Cover(<<>>) = {}
BY DEF Cover

(* Whatever version the file has, the statements that its version asks for *)
(* bring it up to date.                                                    *)
LEMMA StatementsCover ==
  ASSUME NEW v \in 0 .. 4
  PROVE  Statements(v) \in Seq(DOMAIN Makes) /\ Object \subseteq Left(v) \cup Cover(Statements(v))
<1> DEFINE two == <<"protocol">>
           three == <<"groups", "members", "broadcasts">>
           four == <<"requests">>
<1>1. two \in Seq(DOMAIN Makes) /\ Cover(two) = {"protocol"}
  BY CoverOne, MakesAre
<1>2. four \in Seq(DOMAIN Makes) /\ Cover(four) = {"requests"}
  BY CoverOne, MakesAre
<1>3. three \in Seq(DOMAIN Makes) /\ Cover(three) = {"groups", "members", "broadcasts"}
  <2>1. three \in Seq(DOMAIN Makes) /\ three # <<>> /\ Head(three) = "groups"
        /\ Tail(three) = <<"members", "broadcasts">>
    BY MakesAre
  <2>2. /\ <<"members", "broadcasts">> \in Seq(DOMAIN Makes) /\ <<"members", "broadcasts">> # <<>>
        /\ Head(<<"members", "broadcasts">>) = "members"
        /\ Tail(<<"members", "broadcasts">>) = <<"broadcasts">>
    BY MakesAre
  <2>3. Cover(<<"broadcasts">>) = {"broadcasts"}
    BY CoverOne, MakesAre
  <2>4. Cover(<<"members", "broadcasts">>) = {"members", "broadcasts"}
    BY <2>2, <2>3, CoverTail, MakesAre
  <2>5. QED
    BY <2>1, <2>4, CoverTail, MakesAre
<1> HIDE DEF two, three, four
<1>4. Migration[2] = two /\ Migration[3] = three /\ Migration[4] = four
  BY DEF Migration, two, three, four
<1>5. CASE v = 0
  <2>1. FullSchema \in Seq(DOMAIN Makes) /\ FullSchema # <<>> /\ Head(FullSchema) = "messages"
        /\ Tail(FullSchema) = <<"groups", "keyed", "broadcasts", "requests">>
    BY MakesAre DEF FullSchema
  <2>2. LET s == <<"groups", "keyed", "broadcasts", "requests">> IN
          s \in Seq(DOMAIN Makes) /\ s # <<>> /\ Head(s) = "groups" /\ Tail(s) = <<"keyed", "broadcasts", "requests">>
    BY MakesAre
  <2>3. LET s == <<"keyed", "broadcasts", "requests">> IN
          s \in Seq(DOMAIN Makes) /\ s # <<>> /\ Head(s) = "keyed" /\ Tail(s) = <<"broadcasts", "requests">>
    BY MakesAre
  <2>4. LET s == <<"broadcasts", "requests">> IN
          s \in Seq(DOMAIN Makes) /\ s # <<>> /\ Head(s) = "broadcasts" /\ Tail(s) = <<"requests">>
    BY MakesAre
  <2>5. Cover(<<"requests">>) = {"requests"}
    BY CoverOne, MakesAre
  <2>6. Cover(<<"broadcasts", "requests">>) = {"broadcasts", "requests"}
    BY <2>4, <2>5, CoverTail, MakesAre
  <2>7. Cover(<<"keyed", "broadcasts", "requests">>) = {"members", "broadcasts", "requests"}
    BY <2>3, <2>6, CoverTail, MakesAre
  <2>8. Cover(<<"groups", "keyed", "broadcasts", "requests">>) = {"groups", "members", "broadcasts", "requests"}
    BY <2>2, <2>7, CoverTail, MakesAre
  <2>9. Cover(FullSchema) = {"messages", "protocol", "groups", "members", "broadcasts", "requests"}
    BY <2>1, <2>8, CoverTail, MakesAre
  <2>10. QED
    BY <1>5, <2>1, <2>9 DEF Statements, Object
<1>6. three \o four \in Seq(DOMAIN Makes) /\ Cover(three \o four) = Cover(three) \cup Cover(four)
  BY <1>2, <1>3, CoverConcat
<1>7. CASE v = 1
  <2>1. two \o three \in Seq(DOMAIN Makes) /\ Cover(two \o three) = Cover(two) \cup Cover(three)
    BY <1>1, <1>3, CoverConcat
  <2>2. /\ (two \o three) \o four \in Seq(DOMAIN Makes)
        /\ Cover((two \o three) \o four) = Cover(two) \cup Cover(three) \cup Cover(four)
    BY <2>1, <1>2, CoverConcat
  <2>3. Statements(v) = (two \o three) \o four
    BY <1>4, <1>7 DEF Statements
  <2>4. Statements(v) \in Seq(DOMAIN Makes) /\ Cover(Statements(v)) = Object \ {"messages"}
    BY <2>2, <2>3, <1>1, <1>2, <1>3 DEF Object
  <2>5. Left(v) = {"messages"}
    BY <1>7 DEF Left
  <2>6. QED
    BY <2>4, <2>5
<1>8. CASE v = 2
  <2>1. Statements(v) = three \o four
    BY <1>4, <1>8 DEF Statements
  <2>2. /\ Statements(v) \in Seq(DOMAIN Makes)
        /\ Cover(Statements(v)) = {"groups", "members", "broadcasts", "requests"}
    BY <2>1, <1>2, <1>3, <1>6
  <2>3. Left(v) = {"messages", "protocol"}
    BY <1>8 DEF Left
  <2>4. QED
    BY <2>2, <2>3 DEF Object
<1>9. CASE v = 3
  <2>1. Statements(v) = four
    BY <1>4, <1>9 DEF Statements
  <2>2. QED
    BY <1>2, <1>9, <2>1 DEF Left, Object
<1>10. CASE v = 4
  BY <1>10, CoverEmpty DEF Statements, Left
<1>11. QED
  BY <1>5, <1>7, <1>8, <1>9, <1>10

(* Only a file that had no version gets the table of messages with all its *)
(* columns, and only one of version 1 is given the missing one.            *)
LEMMA StatementsFit ==
  ASSUME NEW v \in 0 .. 4
  PROVE  /\ v # 0 => Statements(v) \in Seq(DOMAIN Makes \ {"messages"})
         /\ v # 1 => Statements(v) \in Seq(DOMAIN Makes \ {"protocol"})
<1> DEFINE two == <<"protocol">>
           three == <<"groups", "members", "broadcasts">>
           four == <<"requests">>
           Old == DOMAIN Makes \ {"messages"}
           Late == Old \ {"protocol"}
<1>1. two \in Seq(Old) /\ three \in Seq(Late) /\ four \in Seq(Late)
  BY MakesAre
<1>2. three \in Seq(Old) /\ four \in Seq(Old)
  BY MakesAre
<1>3. <<>> \in Seq(Old) /\ <<>> \in Seq(DOMAIN Makes \ {"protocol"})
  OBVIOUS
<1>4. FullSchema \in Seq(DOMAIN Makes \ {"protocol"})
  BY MakesAre DEF FullSchema
<1>5. three \in Seq(DOMAIN Makes \ {"protocol"}) /\ four \in Seq(DOMAIN Makes \ {"protocol"})
  BY MakesAre
<1>6. Migration[2] = two /\ Migration[3] = three /\ Migration[4] = four
  BY DEF Migration
<1> HIDE DEF two, three, four, Old
<1>7. (two \o three) \o four \in Seq(Old) /\ three \o four \in Seq(Old)
  BY <1>1, <1>2
<1>8. three \o four \in Seq(DOMAIN Makes \ {"protocol"})
  BY <1>5
<1>9. CASE v = 0
  BY <1>4, <1>9 DEF Statements
<1>10. CASE v = 1
  <2>1. Statements(v) = (two \o three) \o four
    BY <1>6, <1>10 DEF Statements
  <2>2. QED
    BY <1>7, <1>10, <2>1 DEF Old
<1>11. CASE v = 2
  <2>1. Statements(v) = three \o four
    BY <1>6, <1>11 DEF Statements
  <2>2. QED
    BY <1>7, <1>8, <2>1 DEF Old
<1>12. CASE v = 3
  <2>1. Statements(v) = four
    BY <1>6, <1>12 DEF Statements
  <2>2. QED
    BY <1>2, <1>5, <2>1 DEF Old
<1>13. CASE v = 4
  BY <1>3, <1>13 DEF Statements, Old
<1>14. QED
  BY <1>9, <1>10, <1>11, <1>12, <1>13

----------------------------------------------------------------------------
(* A process that is migrating still has all the statements ahead of it    *)
(* that the file lacks, and the file has what its version promises.        *)
FileFits ==
  /\ Left(version) \subseteq objects
  /\ \A p \in Process : store[p] = "open" => version = Latest
  /\ \A p \in Process : store[p] = "migrating" => Object \subseteq objects \cup Cover(todo[p])

(* The column that version 2 adds is missing in version 1 only, and so is  *)
(* the statement that adds it.                                             *)
ColumnFits ==
  /\ version # 1 => ("messages" \in objects <=> "protocol" \in objects)
  /\ \A p \in Process :
       /\ version \in 1 .. 3 => todo[p] \in Seq(DOMAIN Makes \ {"messages"})
       /\ version \in {0, 2, 3} => todo[p] \in Seq(DOMAIN Makes \ {"protocol"})

(* Only processes with a store work on groups, and only on ones that were  *)
(* there; a rename that may still succeed knows the name it replaces.      *)
CallsFit ==
  \A p \in Process : call[p].op # "idle" =>
    /\ store[p] = "open" /\ call[p].group \in issued
    /\ call[p].revision <= revision[call[p].group]
    /\ (call[p].op = "rename" /\ call[p].revision = revision[call[p].group])
         => call[p].name = name[call[p].group]

(* There are rows only in a file that is complete, and the reference from  *)
(* members to groups only where there is the table.                        *)
RowsFit ==
  /\ members # {} => version = Latest
  /\ cascade => "members" \in objects

IInv == TypeOK /\ FileFits /\ ColumnFits /\ CallsFit /\ RowsFit /\ NoOrphans

LEMMA IdleIsCall == Idle \in Calls /\ Idle.op = "idle"
BY GroupsAssumption DEF Idle, Calls

(* The record of a call.                                                   *)
AddCall(g, a) == [Idle EXCEPT !.op = "add", !.group = g, !.agent = a]
RenameCall(g, r, n) == [Idle EXCEPT !.op = "rename", !.group = g, !.revision = r, !.name = n]

LEMMA CallIs ==
  /\ \A g \in Group, a \in Agent :
       /\ AddCall(g, a) \in Calls /\ AddCall(g, a).op = "add"
       /\ AddCall(g, a).group = g /\ AddCall(g, a).revision = Idle.revision
  /\ \A g \in Group, r \in 0 .. MaxRevision, n \in Name :
       /\ RenameCall(g, r, n) \in Calls /\ RenameCall(g, r, n).group = g
       /\ RenameCall(g, r, n).revision = r /\ RenameCall(g, r, n).name = n
BY IdleIsCall DEF Calls, AddCall, RenameCall

LEMMA LeftLatest == Left(Latest) = Object /\ Latest \in 0 .. 4 /\ Latest = 4
BY DEF Left, Latest

LEMMA LeftIsObjects == ASSUME NEW v \in 0 .. 4 PROVE Left(v) \subseteq Object
BY DEF Left, Object

LEMMA InitIInv == Init => IInv
<1> SUFFICES ASSUME Init PROVE IInv
  OBVIOUS
<1> USE SchemaAssumption, GroupsAssumption DEF Init, SchemaInit
<1>1. version \in 0 .. 4 /\ objects = Left(version) /\ version \in 0 .. Latest
  BY LeftLatest
<1>2. SchemaTypeOK
  BY <1>1, LeftIsObjects, CoverEmpty DEF SchemaTypeOK
<1>3. TypeOK
  <2>1. Idle \in Calls /\ Idle.name \in Name /\ 0 \in 0 .. MaxRevision
    BY IdleIsCall DEF Calls
  <2>2. QED
    BY <1>2, <2>1 DEF TypeOK, There
<1>4. FileFits
  BY <1>1 DEF FileFits
<1>5. CallsFit /\ ColumnFits
  BY <1>1, IdleIsCall DEF CallsFit, ColumnFits, Left, Object
<1>6. cascade => objects = Object
  BY <1>1, LeftLatest
<1>7. RowsFit /\ NoOrphans
  BY <1>6 DEF RowsFit, NoOrphans, Object
<1>8. QED
  BY <1>3, <1>4, <1>5, <1>7 DEF IInv

(* The steps on the file: the groups and the calls stay.                   *)
LEMMA StartingKeeps == ASSUME IInv, NEW p \in Process, Starting(p) PROVE IInv'
<1> USE SchemaAssumption DEF IInv, TypeOK, SchemaTypeOK, FileFits, RowsFit, Starting, rowVars
<1>1. UNCHANGED <<owner, name, revision, members, issued, call>>
  OBVIOUS
<1>2. \A q \in Process : call[q].op # "idle" => store[q] = "open"
  BY DEF CallsFit
<1>3. ASSUME \A q \in Process : store[q] = "open" => store'[q] = "open"
      PROVE  CallsFit'
  BY <1>1, <1>3 DEF CallsFit
<1>4. CASE Open(p)
  <2> USE <1>4 DEF Open
  <2>1. /\ Statements(version) \in Seq(DOMAIN Makes)
        /\ Object \subseteq Left(version) \cup Cover(Statements(version))
    BY StatementsCover, LeftLatest
  <2>2. SchemaTypeOK'
    BY <2>1
  <2>3. FileFits'
    BY <2>1
  <2>4. CallsFit'
    BY <1>3
  <2>5. ColumnFits'
    <3>1. /\ version \in 1 .. 3 => Statements(version) \in Seq(DOMAIN Makes \ {"messages"})
          /\ version \in {0, 2, 3} => Statements(version) \in Seq(DOMAIN Makes \ {"protocol"})
      BY StatementsFit, LeftLatest
    <3>2. QED
      BY <3>1 DEF ColumnFits
  <2>6. QED
    BY <1>1, <2>2, <2>3, <2>4, <2>5 DEF There, NoOrphans
<1>5. CASE CreateTable(p)
  <2> USE <1>5 DEF CreateTable, Running
  <2> DEFINE s == Head(todo[p])
  <2>1. /\ s \in DOMAIN Makes /\ Tail(todo[p]) \in Seq(DOMAIN Makes)
        /\ Cover(todo[p]) = Makes[s] \cup Cover(Tail(todo[p]))
    BY CoverTail
  <2>2. objects \subseteq objects' /\ objects' \subseteq Object /\ Makes[s] \subseteq objects'
    <3>1. Makes[s] \subseteq Object /\ (s # "messages" => \E x \in Object : Makes[s] = {x})
      BY <2>1, MakesAre DEF Object
    <3>2. CASE s # "messages"
      BY <3>1, <3>2
    <3>3. CASE s = "messages"
      <4>1. version \in {0, 4}
        BY <3>3, LeftLatest DEF ColumnFits
      <4>2. "messages" \in objects <=> "protocol" \in objects
        BY <4>1 DEF ColumnFits
      <4>3. Makes[s] = {"messages", "protocol"}
        BY <3>3, MakesAre
      <4>4. Makes[s] \cap objects # {} => Makes[s] \subseteq objects
        BY <4>2, <4>3
      <4>5. CASE Makes[s] \cap objects = {}
        BY <4>5, <3>1
      <4>6. CASE Makes[s] \cap objects # {}
        BY <4>6, <4>4
      <4>7. QED
        BY <4>5, <4>6
    <3>4. QED
      BY <3>2, <3>3
  <2>3. SchemaTypeOK'
    BY <2>1, <2>2
  <2>4. FileFits'
    BY <2>1, <2>2
  <2>5. CallsFit'
    BY <1>3
  <2>6. (cascade' /\ ~ cascade) => "members" \in objects' /\ "members" \notin objects
    BY <2>1, MakesAre
  <2>7. RowsFit'
    BY <1>1, <2>2, <2>6
  <2>8. (cascade' /\ ~ cascade) => members = {}
    BY <2>6, LeftLatest DEF Object
  <2>9. NoOrphans'
    BY <1>1, <2>8 DEF NoOrphans, There
  <2>10. ColumnFits'
    <3>1. "messages" \in objects' /\ "messages" \notin objects => "protocol" \in objects'
      BY <2>1, MakesAre, ZenonT(30)
    <3>2. "protocol" \in objects' /\ "protocol" \notin objects => "messages" \in objects'
      BY <2>1, MakesAre, ZenonT(30)
    <3>3. \A S : todo[p] \in Seq(S) => Tail(todo[p]) \in Seq(S)
      OBVIOUS
    <3>4. QED
      BY <2>2, <3>1, <3>2, <3>3 DEF ColumnFits
  <2>11. QED
    BY <1>1, <2>3, <2>4, <2>5, <2>7, <2>9, <2>10 DEF There
<1>6. CASE AddColumn(p)
  <2> USE <1>6 DEF AddColumn, Running
  <2>1. /\ Tail(todo[p]) \in Seq(DOMAIN Makes)
        /\ Cover(todo[p]) = {"protocol"} \cup Cover(Tail(todo[p]))
    BY CoverTail, MakesAre
  <2>2. SchemaTypeOK'
    BY <2>1, CoverEmpty DEF Object
  <2>3. objects \subseteq objects'
    OBVIOUS
  <2>4. FileFits'
    BY <2>1, <2>3
  <2>5. CallsFit'
    BY <1>3
  <2>6. ColumnFits'
    <3>1. version \in {1, 4}
      BY LeftLatest DEF ColumnFits
    <3>2. version = 4 => objects = Object
      BY LeftLatest
    <3>3. version = 1 => "messages" \in objects
      BY DEF Left
    <3>4. \A S : todo[p] \in Seq(S) => Tail(todo[p]) \in Seq(S) /\ <<>> \in Seq(S)
      OBVIOUS
    <3>5. objects' = objects \/ (version = 1 /\ objects' = objects \cup {"protocol"})
      BY <3>1, <3>2 DEF Object
    <3>6. version' # 1 => ("messages" \in objects' <=> "protocol" \in objects')
      BY <3>5 DEF ColumnFits
    <3>7. ASSUME NEW q \in Process
          PROVE  /\ version' \in 1 .. 3 => todo'[q] \in Seq(DOMAIN Makes \ {"messages"})
                 /\ version' \in {0, 2, 3} => todo'[q] \in Seq(DOMAIN Makes \ {"protocol"})
      <4>1. version' = version
        OBVIOUS
      <4>2. CASE q # p
        BY <4>1, <4>2 DEF ColumnFits
      <4>3. CASE q = p
        <5>1. todo'[p] \in {Tail(todo[p]), <<>>}
          OBVIOUS
        <5>2. version \in 1 .. 3 => todo[p] \in Seq(DOMAIN Makes \ {"messages"})
          BY DEF ColumnFits
        <5>3. version \notin {0, 2, 3}
          BY <3>1
        <5>4. QED
          BY <3>4, <4>1, <4>3, <5>1, <5>2, <5>3
      <4>4. QED
        BY <4>2, <4>3
    <3>8. QED
      BY <3>6, <3>7 DEF ColumnFits
  <2>7. QED
    BY <1>1, <2>2, <2>3, <2>4, <2>5, <2>6 DEF There, NoOrphans
<1>7. CASE Stamp(p)
  <2> USE <1>7 DEF Stamp
  <2>1. objects = Object
    BY CoverEmpty
  <2>2. SchemaTypeOK'
    BY LeftLatest
  <2>3. FileFits'
    BY <2>1, LeftLatest
  <2>4. CallsFit'
    BY <1>3
  <2>5. ColumnFits'
    BY <2>1, LeftLatest DEF ColumnFits, Object
  <2>6. QED
    BY <1>1, <2>2, <2>3, <2>4, <2>5 DEF There, NoOrphans
<1>8. QED
  BY <1>4, <1>5, <1>6, <1>7 DEF Migrate

(* The statements on groups, by whatever call.                             *)
LEMMA CreateKeeps ==
  ASSUME IInv, NEW a \in Agent, NEW n \in Name, CreateGroup(a, n), UNCHANGED <<schemaVars, call>>
  PROVE  IInv'
<1> USE DEF IInv, CreateGroup, schemaVars
<1>1. PICK g \in Group \ issued : owner' = [owner EXCEPT ![g] = a] /\ name' = [name EXCEPT ![g] = n]
                                /\ issued' = issued \cup {g}
  OBVIOUS
<1>2. TypeOK'
  BY <1>1, GroupsAssumption DEF TypeOK, SchemaTypeOK, There
<1>3. FileFits' /\ ColumnFits' /\ RowsFit'
  BY DEF FileFits, ColumnFits, RowsFit
<1>4. CallsFit'
  BY <1>1 DEF CallsFit, TypeOK, Calls
<1>5. NoOrphans'
  BY <1>1, GroupsAssumption DEF NoOrphans, TypeOK, There
<1>6. QED
  BY <1>2, <1>3, <1>4, <1>5

LEMMA DeleteKeeps ==
  ASSUME IInv, NEW a \in Agent, NEW g \in Group, DeleteGroup(a, g), UNCHANGED <<schemaVars, call>>
  PROVE  IInv'
<1> USE DEF IInv, DeleteGroup, schemaVars
<1>1. TypeOK'
  BY DEF TypeOK, SchemaTypeOK, There
<1>2. FileFits' /\ ColumnFits' /\ RowsFit'
  BY DEF FileFits, ColumnFits, RowsFit
<1>3. CallsFit'
  BY DEF CallsFit
<1>4. NoOrphans'
  BY DEF NoOrphans, TypeOK, There
<1>5. QED
  BY <1>1, <1>2, <1>3, <1>4

LEMMA RemoveKeeps ==
  ASSUME IInv, NEW g \in Group, NEW a \in Agent, DeleteMember(g, a), UNCHANGED <<schemaVars, call>>
  PROVE  IInv'
BY DEF IInv, DeleteMember, schemaVars, TypeOK, SchemaTypeOK, There, FileFits, ColumnFits, RowsFit, CallsFit, NoOrphans

(* A process that begins a call has a store, and keeps it all the while.   *)
LEMMA BeginKeeps ==
  ASSUME IInv, NEW p \in Process, NEW c \in Calls, Begin(p, c), c.group \in issued,
         c.revision <= revision[c.group],
         (c.op = "rename" /\ c.revision = revision[c.group]) => c.name = name[c.group]
  PROVE  IInv'
<1> USE DEF IInv, Begin, Free, schemaVars, rowVars
<1>1. TypeOK' /\ FileFits' /\ ColumnFits' /\ RowsFit' /\ NoOrphans'
  BY DEF TypeOK, SchemaTypeOK, There, FileFits, ColumnFits, RowsFit, NoOrphans
<1>2. CallsFit'
  BY DEF CallsFit, TypeOK
<1>3. QED
  BY <1>1, <1>2

LEMMA AddKeeps == ASSUME IInv, NEW p \in Process, AddMember(p) PROVE IInv'
<1> USE DEF IInv, AddMember, Finish, InsertMember, schemaVars
<1>1. call[p].group \in Group /\ call[p].agent \in Agent /\ store[p] = "open"
  BY DEF TypeOK, Calls, CallsFit
<1>2. TypeOK'
  BY <1>1, IdleIsCall DEF TypeOK, SchemaTypeOK, There
<1>3. version = Latest
  BY <1>1 DEF FileFits
<1>4. FileFits' /\ ColumnFits' /\ RowsFit'
  BY <1>3 DEF FileFits, ColumnFits, RowsFit
<1>5. CallsFit'
  BY IdleIsCall DEF CallsFit, TypeOK
<1>6. NoOrphans'
  BY <1>1 DEF NoOrphans, There
<1>7. QED
  BY <1>2, <1>4, <1>5, <1>6

LEMMA RenameKeeps == ASSUME IInv, NEW p \in Process, Rename(p) PROVE IInv'
<1> USE DEF IInv, Rename, Finish, schemaVars
<1> DEFINE g == call[p].group
<1>1. PICK n \in Name : RenameGroup(g, n, call[p].revision)
  OBVIOUS
<1>2. g \in Group
  BY DEF TypeOK, Calls
<1>3. \/ UNCHANGED <<name, revision>>
      \/ /\ name' = [name EXCEPT ![g] = n] /\ revision' = [revision EXCEPT ![g] = @ + 1]
         /\ revision[g] < MaxRevision
  BY <1>1 DEF RenameGroup
<1>4. UNCHANGED <<owner, members, issued>>
  BY <1>1 DEF RenameGroup
<1> HIDE DEF g
<1>5. TypeOK'
  <2>1. \A r \in 0 .. MaxRevision : r < MaxRevision => r + 1 \in 0 .. MaxRevision
    BY GroupsAssumption
  <2>2. name' \in [Group -> Name] /\ revision' \in [Group -> 0 .. MaxRevision]
    BY <1>2, <1>3, <2>1 DEF TypeOK
  <2>3. QED
    BY <1>4, <2>2, IdleIsCall DEF TypeOK, SchemaTypeOK, There
<1>6. FileFits' /\ ColumnFits' /\ RowsFit'
  BY <1>4 DEF FileFits, ColumnFits, RowsFit
<1>7. ASSUME NEW q \in Process, call'[q].op # "idle"
      PROVE  /\ store'[q] = "open" /\ call'[q].group \in issued'
             /\ call'[q].revision <= revision'[call'[q].group]
             /\ (call'[q].op = "rename" /\ call'[q].revision = revision'[call'[q].group])
                  => call'[q].name = name'[call'[q].group]
  <2>1. q # p /\ call'[q] = call[q]
    BY <1>7, IdleIsCall DEF TypeOK
  <2>2. /\ store[q] = "open" /\ call[q].group \in issued
        /\ call[q].revision <= revision[call[q].group]
        /\ (call[q].op = "rename" /\ call[q].revision = revision[call[q].group])
             => call[q].name = name[call[q].group]
    BY <1>7, <2>1 DEF CallsFit
  <2>3. call[q].revision \in Nat /\ call[q].group \in Group /\ revision[call[q].group] \in Nat
    BY DEF TypeOK, Calls
  <2>4. CASE UNCHANGED <<name, revision>>
    BY <1>4, <2>1, <2>2, <2>4
  <2>5. CASE name' = [name EXCEPT ![g] = n] /\ revision' = [revision EXCEPT ![g] = @ + 1]
    BY <1>2, <1>4, <2>1, <2>2, <2>3, <2>5 DEF TypeOK
  <2>6. QED
    BY <1>3, <2>4, <2>5
<1>8. CallsFit'
  BY <1>7 DEF CallsFit
<1>9. NoOrphans'
  BY <1>4 DEF NoOrphans, There
<1>10. QED
  BY <1>5, <1>6, <1>8, <1>9

(* What the agent tool, the slash commands and the dashboard do is one of  *)
(* these, on a group that was given out once.                              *)
LEMMA ActIs ==
  ASSUME IInv, NEW p \in Process, Act(p)
  PROVE  \/ \E n \in Name : group_create(p, n)
         \/ \E g \in issued : \/ group_delete(p, g) \/ ReadGroup(p, g)
                             \/ \E a \in Agent : group_add_member(p, g, a) \/ group_remove_member(p, g, a)
         \/ AddMember(p) \/ Rename(p)
BY DEF Act, peer_group_manage, cmd_peer_groups, cmd_peer_group, DashboardRoutes, Known, IInv, TypeOK, ReadGroup

LEMMA ActKeeps == ASSUME IInv, NEW p \in Process, Act(p) PROVE IInv'
<1>1. AgentOf[p] \in Agent /\ issued \subseteq Group
  BY GroupsAssumption DEF IInv, TypeOK
<1>2. CASE \E n \in Name : group_create(p, n)
  BY <1>1, <1>2, CreateKeeps DEF group_create
<1>3. ASSUME NEW g \in issued, group_delete(p, g) PROVE IInv'
  BY <1>1, <1>3, DeleteKeeps DEF group_delete
<1>4. ASSUME NEW g \in issued, ReadGroup(p, g) PROVE IInv'
  <2> DEFINE c == RenameCall(g, revision[g], name[g])
  <2>1. g \in Group /\ revision[g] \in 0 .. MaxRevision /\ revision[g] \in Nat /\ name[g] \in Name
    BY <1>1 DEF IInv, TypeOK
  <2>2. c \in Calls /\ c.group = g /\ c.revision = revision[g] /\ c.name = name[g]
    BY <2>1, CallIs
  <2>3. Begin(p, c)
    BY <1>4 DEF ReadGroup, RenameCall
  <2> HIDE DEF c
  <2>4. QED
    BY <2>1, <2>2, <2>3, BeginKeeps
<1>5. ASSUME NEW g \in issued, NEW a \in Agent, group_add_member(p, g, a) PROVE IInv'
  <2> DEFINE c == AddCall(g, a)
  <2>1. g \in Group /\ revision[g] \in Nat /\ Idle.name \in Name
    BY <1>1, IdleIsCall DEF IInv, TypeOK, Calls
  <2>2. 0 \in 0 .. MaxRevision /\ Idle.revision = 0
    BY GroupsAssumption DEF Idle
  <2>3. c \in Calls /\ c.group = g /\ c.revision = 0 /\ c.op = "add"
    BY <2>1, <2>2, CallIs
  <2>4. Begin(p, c)
    BY <1>5 DEF group_add_member, AddCall
  <2> HIDE DEF c
  <2>5. QED
    BY <2>1, <2>3, <2>4, BeginKeeps
<1>6. ASSUME NEW g \in issued, NEW a \in Agent, group_remove_member(p, g, a) PROVE IInv'
  BY <1>1, <1>6, RemoveKeeps DEF group_remove_member
<1>7. QED
  BY ActIs, <1>2, <1>3, <1>4, <1>5, <1>6, AddKeeps, RenameKeeps

(* A death: the file stays as it is.                                       *)
LEMMA CrashKeeps == ASSUME IInv, NEW p \in Process, Crash(p) PROVE IInv'
<1> USE DEF IInv, Crash, Die, rowVars
<1>1. crashes' \in 0 .. MaxCrashes
  BY SchemaAssumption DEF TypeOK, SchemaTypeOK
<1>2. \A S : <<>> \in Seq(S)
  OBVIOUS
<1>3. TypeOK'
  BY <1>1, <1>2, IdleIsCall DEF TypeOK, SchemaTypeOK, There
<1>4. FileFits' /\ ColumnFits' /\ RowsFit' /\ NoOrphans'
  BY <1>2 DEF FileFits, ColumnFits, RowsFit, NoOrphans, There, TypeOK, SchemaTypeOK
<1>5. CallsFit'
  BY IdleIsCall DEF CallsFit, TypeOK, SchemaTypeOK
<1>6. QED
  BY <1>3, <1>4, <1>5

LEMMA StutterKeeps == IInv /\ UNCHANGED vars => IInv'
BY DEF IInv, vars, schemaVars, rowVars, TypeOK, SchemaTypeOK, There, FileFits, ColumnFits, CallsFit, RowsFit, NoOrphans

LEMMA StepKeeps == IInv /\ [Next]_vars => IInv'
BY StartingKeeps, ActKeeps, CrashKeeps, StutterKeeps DEF Next

(* The strengthening is an invariant.                                      *)
THEOREM Inductive == Spec => []IInv
BY InitIInv, StepKeeps, PTL DEF Spec

(* Every variable of the shared file and of the groups keeps its type.     *)
THEOREM TypeCorrect == Spec => []TypeOK
<1>1. IInv => TypeOK
  BY DEF IInv
<1>2. QED
  BY <1>1, Inductive, PTL

(* However many processes open the file at once and die over it, and       *)
(* whatever version it had, none works on it before its schema is complete *)
(* (MessageStore._migrate).                                                *)
THEOREM CompleteWhenOpen == Spec => []OpenMeansCurrent
<1>1. IInv => OpenMeansCurrent
  BY LeftLatest DEF IInv, TypeOK, SchemaTypeOK, FileFits, OpenMeansCurrent
<1>2. QED
  BY <1>1, Inductive, PTL

(* No member outlives its group in a file created by this release          *)
(* (group_members' reference, PRAGMA foreign_keys).                        *)
THEOREM MembersHaveGroups == Spec => []NoOrphans
<1>1. IInv => NoOrphans
  BY DEF IInv
<1>2. QED
  BY <1>1, Inductive, PTL

(* Nobody renames a group without having seen the name it had              *)
(* (GroupStore.rename_group).                                              *)
LEMMA RenameSees ==
  IInv /\ [Next]_vars =>
    [\A g \in Group : name'[g] # name[g] /\ There(g)
       => \E p \in Process : call[p].op = "rename" /\ call'[p].op = "idle"
                               /\ call[p].group = g /\ call[p].name = name[g]]_vars
<1> SUFFICES ASSUME IInv, Next, NEW g \in Group, name'[g] # name[g], There(g)
             PROVE  \E p \in Process : call[p].op = "rename" /\ call'[p].op = "idle"
                               /\ call[p].group = g /\ call[p].name = name[g]
  OBVIOUS
<1>1. PICK p \in Process : Starting(p) \/ Act(p) \/ Crash(p)
  BY DEF Next
<1>2. ~ Starting(p) /\ ~ Crash(p)
  BY DEF Starting, Crash, rowVars
<1>3. g \in issued
  BY DEF IInv, TypeOK
<1>4. \A n \in Name : ~ group_create(p, n)
  BY <1>3 DEF group_create, CreateGroup, IInv, TypeOK
<1>5. \A h, a : ~ group_delete(p, h) /\ ~ group_remove_member(p, h, a) /\ ~ group_add_member(p, h, a) /\ ~ ReadGroup(p, h)
  BY DEF group_delete, DeleteGroup, group_remove_member, DeleteMember, group_add_member, ReadGroup, Begin, rowVars
<1>6. ~ AddMember(p)
  BY DEF AddMember, InsertMember
<1>7. Rename(p)
  BY <1>1, <1>2, <1>4, <1>5, <1>6, ActIs
<1>8. call[p].op = "rename" /\ call'[p].op = "idle"
  BY <1>7, IdleIsCall DEF Rename, Finish, IInv, TypeOK
<1>9. PICK n \in Name : RenameGroup(call[p].group, n, call[p].revision)
  BY <1>7 DEF Rename
<1>10. call[p].group = g /\ revision[g] = call[p].revision
  BY <1>9 DEF RenameGroup, IInv, TypeOK
<1>11. call[p].name = name[g]
  BY <1>8, <1>10 DEF IInv, CallsFit
<1>12. QED
  BY <1>8, <1>10, <1>11

THEOREM RenamesKnow == Spec => RenamesSeeLatest
<1>1. Spec => [][Next]_vars
  BY PTL DEF Spec
<1>2. QED
  BY <1>1, Inductive, RenameSees, PTL DEF RenamesSeeLatest
=============================================================================
