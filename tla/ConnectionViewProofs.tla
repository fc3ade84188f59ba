------------------------ MODULE ConnectionViewProofs ------------------------
(***************************************************************************)
(* Proofs about ConnectionView, for any profiles with any connections and  *)
(* nodes.                                                                  *)
(***************************************************************************)
EXTENDS ConnectionView, SequenceTheorems, TLAPS

\* The pickers' options are those of one answer: the connections, and the
\* nodes of the connection selected.
Fits(a, cs, c, ns) ==
    IF a = None THEN cs = {} /\ ns = {}
    ELSE /\ cs \subseteq ToSet(Conns[a.bundle])
         /\ ns # {} => c # None /\ ns \subseteq Nodes[<<a.bundle, c>>]

\* The state's types, with the pickers of the bundle last answered.
FitInv == TypeOK /\ Fits(current.inspected, conns, connSel, nodes)

\* What this.current may be.
Wanted == [connection : Connection \cup {None}, node : Node \cup {None},
           inspected : Inspected \cup {None}]

LEMMA ConnsType ==
    ASSUME NEW b \in Bundle
    PROVE  Conns[b] \in Seq(Connection) /\ ToSet(Conns[b]) \subseteq Connection
<1>1. Conns[b] \in Seq(Connection)
  BY ViewAssumption
<1>2. \A i \in DOMAIN Conns[b] : Conns[b][i] \in Connection
  BY <1>1
<1> QED BY <1>1, <1>2 DEF ToSet

\* An answer is of the name it was asked by, or none.
LEMMA AnswerType ==
    ASSUME TypeOK, NEW call \in Call
    PROVE  Answers(call) \subseteq
               {None} \cup {a \in Inspected : a.profile = call.profile}
BY DEF Answers, Readable, Inspected, TypeOK

\* A picker shows an option or nothing.
LEMMA ValueOffered ==
    ASSUME NEW w, NEW S
    PROVE  Value(w, S) \in S \cup {None}
BY DEF Value

\* Filling the node picker for a connection of answer a, or for none.
LEMMA FillNodesFits ==
    ASSUME TypeOK, NEW a \in Inspected \cup {None}, NEW c \in Connection \cup {None},
           a = None => c = None, FillNodes(a, c)
    PROVE  /\ nodes' \subseteq Node /\ nodeSel' \in nodes' \cup {None}
           /\ path' \in Cascades \cup {None}
           /\ a = None => nodes' = {}
           /\ nodes' # {} => a # None /\ c # None /\ nodes' \subseteq Nodes[<<a.bundle, c>>]
<1>1. CASE a # None /\ c \in ToSet(Conns[a.bundle])
  <2>1. a.bundle \in Bundle /\ c \in Connection /\ c # None
    <3>1. a.bundle \in Bundle
      BY <1>1 DEF Inspected
    <3> QED BY <1>1, <3>1, ConnsType, ViewAssumption
  <2>2. nodes' = Nodes[<<a.bundle, c>>] /\ Nodes[<<a.bundle, c>>] \in SUBSET Node
    BY <1>1, <2>1, ViewAssumption DEF FillNodes
  <2>3. nodeSel' \in nodes' \cup {None} /\ path' \in Cascades \cup {None}
    BY <1>1, ValueOffered DEF FillNodes
  <2> QED BY <1>1, <2>1, <2>2, <2>3
<1>2. CASE ~(a # None /\ c \in ToSet(Conns[a.bundle]))
  BY <1>2 DEF FillNodes, TypeOK
<1> QED BY <1>1, <1>2

\* Filling the pickers from an answer.
LEMMA FillFits ==
    ASSUME FitInv, NEW a \in Inspected \cup {None}, Fill(a)
    PROVE  /\ conns' \subseteq Connection /\ connSel' \in conns' \cup {None}
           /\ nodes' \subseteq Node /\ nodeSel' \in nodes' \cup {None}
           /\ path' \in Cascades \cup {None}
           /\ current' \in Wanted /\ current'.inspected = a
           /\ Fits(a, conns', connSel', nodes')
<1>1. current \in Wanted /\ TypeOK
  BY DEF FitInv, TypeOK, Wanted
<1>2. current' \in Wanted /\ current'.inspected = a
  BY <1>1 DEF Fill, Wanted
<1>3. CASE a = None \/ Conns[a.bundle] = << >>
  BY <1>1, <1>2, <1>3 DEF Fill, Fits, TypeOK
<1>4. CASE ~(a = None \/ Conns[a.bundle] = << >>)
  <2>1. /\ a \in Inspected /\ a # None /\ a.bundle \in Bundle
        /\ conns' = ToSet(Conns[a.bundle]) /\ FillNodes(a, connSel')
    BY <1>4 DEF Fill, Inspected
  <2>2. conns' \subseteq Connection
    BY <2>1, ConnsType
  <2>3. connSel' \in conns' \cup {None}
    BY <1>4, ValueOffered DEF Fill
  <2>4. connSel' \in Connection \cup {None}
    BY <2>2, <2>3
  <2>5. /\ nodes' \subseteq Node /\ nodeSel' \in nodes' \cup {None}
        /\ path' \in Cascades \cup {None}
        /\ nodes' # {} => connSel' # None /\ nodes' \subseteq Nodes[<<a.bundle, connSel'>>]
    BY <1>1, <2>1, <2>4, FillNodesFits
  <2> QED BY <1>2, <2>1, <2>2, <2>3, <2>5 DEF Fits
<1> QED BY <1>3, <1>4

\* Taking an answer off the calls under way.
LEMMA CallsLeft ==
    ASSUME NEW s \in Seq(Call), NEW k \in DOMAIN s
    PROVE  RemoveAt(s, k) \in Seq(Call)
<1>1. k \in 1..Len(s) /\ Len(s) \in Nat
  BY LenProperties
<1>2. SubSeq(s, 1, k - 1) \in Seq(Call) /\ SubSeq(s, k + 1, Len(s)) \in Seq(Call)
  BY <1>1, SubSeqProperties
<1> QED BY <1>2 DEF RemoveAt

\* Every step keeps the types and the fit.
LEMMA FitStep == FitInv /\ [Next]_vars => FitInv'
<1> SUFFICES ASSUME FitInv, [Next]_vars PROVE FitInv'
  OBVIOUS
<1>0. TypeOK /\ current \in Wanted /\ Fits(current.inspected, conns, connSel, nodes)
  BY DEF FitInv, TypeOK, Wanted
<1>1. ASSUME NEW k \in DOMAIN calls, Answer(k) PROVE FitInv'
  <2>1. calls[k] \in Call /\ calls' \in Seq(Call)
    BY <1>0, <1>1, CallsLeft, ElementOfSeq DEF Answer, TypeOK
  <2>2. PICK a \in Inspected \cup {None} : Fill(a)
    BY <1>0, <1>1, <2>1, AnswerType DEF Answer
  <2>3. UNCHANGED <<stored, sel, options, profSel, password>>
    BY <1>1 DEF Answer
  <2> QED BY <1>0, <2>1, <2>2, <2>3, FillFits DEF FitInv, TypeOK, Wanted
<1>2. ASSUME NEW p \in options, PickProfile(p) PROVE FitInv'
  <2>1. current' \in Wanted /\ current'.inspected = current.inspected
    BY <1>0, <1>2 DEF PickProfile, Wanted
  <2>2. [profile |-> p, password |-> password] \in Call
    BY <1>0 DEF Call, TypeOK
  <2>3. calls' \in Seq(Call)
    BY <1>0, <1>2, <2>2, AppendProperties DEF PickProfile, Inspect, TypeOK
  <2> QED BY <1>0, <1>2, <2>1, <2>3 DEF FitInv, TypeOK, Wanted, PickProfile, pickers
<1>3. ASSUME NEW c \in conns, PickConnection(c) PROVE FitInv'
  <2>1. current' \in Wanted /\ current'.inspected = current.inspected
    <3>1. c \in Connection
      BY <1>0 DEF TypeOK
    <3> QED BY <1>0, <1>3, <3>1 DEF PickConnection, Wanted
  <2>2. /\ c \in Connection /\ current.inspected # None /\ current.inspected \in Inspected
        /\ conns \subseteq ToSet(Conns[current.inspected.bundle])
    BY <1>0 DEF Fits, TypeOK, Wanted
  <2>3. FillNodes(current.inspected, c) /\ connSel' = c
        /\ UNCHANGED <<stored, sel, options, profSel, conns, password, calls>>
    BY <1>3 DEF PickConnection
  <2>4. /\ nodes' \subseteq Node /\ nodeSel' \in nodes' \cup {None}
        /\ path' \in Cascades \cup {None}
        /\ nodes' # {} => c # None /\ nodes' \subseteq Nodes[<<current.inspected.bundle, c>>]
    BY <1>0, <2>2, <2>3, FillNodesFits
  <2>5. Fits(current.inspected, conns, c, nodes')
    BY <2>2, <2>4 DEF Fits
  <2> QED BY <1>0, <2>1, <2>3, <2>4, <2>5 DEF FitInv, TypeOK, Wanted
<1>4. ASSUME NEW n \in nodes \cup {None}, PickNode(n) PROVE FitInv'
  BY <1>0, <1>4 DEF FitInv, TypeOK, PickNode
<1>5. ASSUME NEW pw \in Typed, TypePassword(pw) PROVE FitInv'
  <2>1. pw \in Password /\ [profile |-> profSel, password |-> pw] \in Call
    BY <1>0, ViewAssumption DEF Call, TypeOK
  <2>2. calls' \in Seq(Call)
    BY <1>0, <1>5, <2>1, AppendProperties DEF TypePassword, Inspect, TypeOK
  <2> QED BY <1>0, <1>5, <2>1, <2>2 DEF FitInv, TypeOK, TypePassword, pickers
<1>6. CASE Connect
  <2>1. connSel \in Connection \cup {None} /\ nodeSel \in Node \cup {None} /\ profSel \in Profile
    BY <1>0, <1>6 DEF TypeOK, Connect
  <2>2. sel' \in Selection
    BY <1>6, <2>1 DEF Connect, Selection
  <2> QED BY <1>0, <1>6, <2>2 DEF FitInv, TypeOK, Connect, page, pickers
<1>7. CASE Changes
  <2>1. stored' \in [Profile -> Bundle \cup {None}] /\ UNCHANGED <<sel, page>>
    <3>1. PICK p \in Profile : \E b \in Contents[p] \cup {None} : Change(p, b)
      BY <1>7 DEF Changes
    <3>2. PICK b \in Contents[p] \cup {None} : Change(p, b)
      BY <3>1
    <3>3. b \in Bundle \cup {None}
      BY ViewAssumption
    <3> QED BY <1>0, <3>2, <3>3 DEF Change, TypeOK
  <2> QED BY <1>0, <2>1 DEF FitInv, TypeOK, page, pickers
<1>8. CASE Render
  <2>1. PICK p \in Profile \cup {None} :
            /\ profSel' = Value(p, options')
            /\ calls' = <<[profile |-> p, password |-> "none"]>>
    BY <1>0, <1>8 DEF Render, TypeOK, Selection
  <2>2. [profile |-> p, password |-> "none"] \in Call
    BY DEF Call, Password
  <2>3. calls' \in Seq(Call)
    BY <2>1, <2>2
  <2>4. options' \subseteq Profile /\ profSel' \in options' \cup {None}
    BY <1>8, <2>1, ValueOffered DEF Render
  <2>5. current' \in Wanted /\ current'.inspected = None
    BY <1>0, <1>8 DEF Render, Wanted, TypeOK, Selection
  <2> QED BY <1>0, <1>8, <2>3, <2>4, <2>5
          DEF Render, Blank, FitInv, TypeOK, Fits, Wanted, Password
<1>9. CASE UNCHANGED vars
  BY <1>0, <1>9 DEF FitInv, TypeOK, vars, page, pickers
<1> QED
  BY <1>1, <1>2, <1>3, <1>4, <1>5, <1>6, <1>7, <1>8, <1>9 DEF Next, Page

\* It holds initially.
LEMMA FitInit == Init => FitInv
<1> SUFFICES ASSUME Init PROVE FitInv
  OBVIOUS
<1>1. stored \in [Profile -> Bundle \cup {None}] /\ sel \in Selection
  BY DEF Init
<1>2. current \in Wanted /\ current.inspected = None
  BY DEF Init, Wanted
<1> QED BY <1>1, <1>2 DEF Init, FitInv, TypeOK, Fits, Wanted, Password

\* The pickers hold only what they offer, and a request only what they held.
THEOREM TypeCorrect == Spec => []TypeOK
<1>1. FitInv => TypeOK
  BY DEF FitInv
<1> QED BY <1>1, FitInit, FitStep, PTL DEF Spec

\* What fits agrees.
LEMMA AgreeFits == FitInv => PickersAgree
BY DEF FitInv, Fits, TypeOK, PickersAgree, Has

\* Whatever choices, passwords and answers are interleaved, in whatever order
\* the answers come, the pickers hold a connection of one profile and a node
\* of that connection.
THEOREM AgreeSafe == Spec => []PickersAgree
<1>1. FitInv => PickersAgree
  BY AgreeFits
<1> QED BY <1>1, FitInit, FitStep, PTL DEF Spec

\* The calls under way end with one for the chosen profile; when none is, the
\* pickers are of that profile or empty.
SettleInv ==
    /\ FitInv
    /\ PickersSettle
    /\ calls # << >> /\ profSel # None => calls[Len(calls)].profile = profSel

\* Taking off the first call leaves the last one last.
LEMMA FirstLeft ==
    ASSUME NEW s \in Seq(Call), s # << >>
    PROVE  /\ RemoveAt(s, 1) \in Seq(Call) /\ Len(RemoveAt(s, 1)) = Len(s) - 1
           /\ Len(s) > 1 => RemoveAt(s, 1)[Len(s) - 1] = s[Len(s)]
<1> DEFINE head == SubSeq(s, 1, 0)
           rest == SubSeq(s, 2, Len(s))
<1>1. Len(s) \in Nat /\ Len(s) >= 1
  BY EmptySeq, LenProperties
<1>2. head \in Seq(Call) /\ Len(head) = 0
  BY <1>1, SubSeqProperties
<1>3. /\ rest \in Seq(Call) /\ Len(rest) = Len(s) - 1
      /\ \A i \in 1..Len(s) - 1 : rest[i] = s[2 + i - 1]
  <2>1. \A i \in 2..Len(s) : s[i] \in Call
    BY <1>1, LenProperties
  <2>2. /\ rest \in Seq(Call)
        /\ Len(rest) = IF 2 <= Len(s) THEN Len(s) - 2 + 1 ELSE 0
        /\ \A i \in 1..Len(s) - 2 + 1 : rest[i] = s[2 + i - 1]
    BY <1>1, <2>1, SubSeqProperties
  <2>a. \A n \in Nat : n >= 1 => n - 2 + 1 = n - 1 /\ (~(2 <= n) => n - 1 = 0)
    OBVIOUS
  <2>3. Len(s) - 2 + 1 = Len(s) - 1 /\ (~(2 <= Len(s)) => Len(s) - 1 = 0)
    BY <1>1, <2>a
  <2> HIDE DEF rest
  <2> QED BY <2>2, <2>3
<1>4. RemoveAt(s, 1) = head \o rest
  BY <1>1 DEF RemoveAt
<1>5. /\ head \o rest \in Seq(Call) /\ Len(head \o rest) = Len(s) - 1
      /\ \A i \in 1..Len(s) - 1 : (head \o rest)[i] = rest[i]
  BY <1>1, <1>2, <1>3, ConcatProperties
<1>6. Len(s) > 1 => (head \o rest)[Len(s) - 1] = s[Len(s)]
  BY <1>1, <1>3, <1>5
<1> QED BY <1>4, <1>5, <1>6

\* Appending a call puts it last.
LEMMA CallAppended ==
    ASSUME NEW s \in Seq(Call), NEW e \in Call
    PROVE  Append(s, e) # << >> /\ Append(s, e)[Len(Append(s, e))] = e
<1>1. Len(s) \in Nat /\ Len(Append(s, e)) = Len(s) + 1 /\ Append(s, e)[Len(s) + 1] = e
  BY LenProperties, AppendProperties
<1> QED BY <1>1, AppendProperties

\* Once the answers are in, the pickers are those of the chosen profile, when
\* answers come in the order of their calls.
THEOREM SettleSafe == ASSUME Ordered PROVE Spec => []PickersSettle
<1>1. Init => SettleInv
  BY FitInit DEF Init, SettleInv, PickersSettle
<1>2. SettleInv /\ [Next]_vars => SettleInv'
  <2> SUFFICES ASSUME SettleInv, [Next]_vars PROVE SettleInv'
    OBVIOUS
  <2>0. FitInv' /\ TypeOK /\ calls \in Seq(Call)
    BY FitStep DEF SettleInv, FitInv, TypeOK
  <2>1. ASSUME NEW k \in DOMAIN calls, Answer(k) PROVE SettleInv'
    <3>1. k = 1 /\ calls # << >> /\ calls[1] \in Call
      BY <2>0, <2>1, ElementOfSeq DEF Answer
    <3>2. profSel' = profSel /\ calls' = RemoveAt(calls, 1)
      BY <2>1, <3>1 DEF Answer
    <3>3. current'.inspected = None \/ current'.inspected.profile = calls[1].profile
      <4>1. PICK a \in Inspected \cup {None} :
                (a = None \/ a.profile = calls[1].profile) /\ Fill(a)
        BY <2>0, <2>1, <3>1, AnswerType DEF Answer
      <4>2. current'.inspected = a
        BY <4>1, FillFits DEF SettleInv
      <4> QED BY <4>1, <4>2
    <3>4. CASE Len(calls) > 1
      <4>1. calls' # << >> /\ calls'[Len(calls')] = calls[Len(calls)]
        BY <2>0, <3>1, <3>2, <3>4, FirstLeft, LenProperties
      <4> QED BY <2>0, <3>1, <3>2, <4>1 DEF SettleInv, PickersSettle
    <3>5. CASE Len(calls) = 1
      <4>1. calls' = << >>
        BY <2>0, <3>1, <3>2, <3>5, FirstLeft, EmptySeq
      <4>2. profSel # None => calls[1].profile = profSel
        BY <3>1, <3>5 DEF SettleInv
      <4>3. profSel' # None /\ current'.inspected # None => current'.inspected.profile = profSel'
        BY <3>2, <3>3, <4>2
      <4>4. PickersSettle'
        BY <4>3 DEF PickersSettle
      <4>5. (calls # << >> /\ profSel # None => calls[Len(calls)].profile = profSel)'
        BY <4>1
      <4> QED BY <2>0, <4>4, <4>5 DEF SettleInv
    <3>6. Len(calls) \in Nat \ {0}
      BY <2>0, <3>1, EmptySeq
    <3>7. \A n \in Nat \ {0} : n > 1 \/ n = 1
      OBVIOUS
    <3> QED BY Zenon, <3>4, <3>5, <3>6, <3>7
  <2>2. ASSUME NEW p \in options, PickProfile(p) PROVE SettleInv'
    <3> DEFINE e == [profile |-> p, password |-> password]
    <3>1. e \in Call /\ calls' = Append(calls, e) /\ profSel' = p /\ e.profile = p
      BY <2>0, <2>2 DEF PickProfile, Inspect, Call, TypeOK
    <3> QED BY <2>0, <3>1, CallAppended DEF SettleInv, PickersSettle
  <2>3. ASSUME NEW pw \in Typed, TypePassword(pw) PROVE SettleInv'
    <3> DEFINE e == [profile |-> profSel, password |-> pw]
    <3>1. e \in Call /\ calls' = Append(calls, e) /\ profSel' = profSel /\ e.profile = profSel
      BY <2>0, <2>3, ViewAssumption DEF TypePassword, Inspect, Call, TypeOK
    <3> QED BY <2>0, <3>1, CallAppended DEF SettleInv, PickersSettle
  <2>4. CASE UNCHANGED <<calls, profSel>> /\ current'.inspected = current.inspected
    BY <2>0, <2>4 DEF SettleInv, PickersSettle
  <2>5. ASSUME NEW c \in conns, PickConnection(c) PROVE SettleInv'
    <3>1. current'.inspected = current.inspected
      BY <2>0, <2>5 DEF PickConnection, TypeOK
    <3> QED BY <2>4, <2>5, <3>1 DEF PickConnection
  <2>6. ASSUME NEW n \in nodes \cup {None}, PickNode(n) PROVE SettleInv'
    BY <2>4, <2>6 DEF PickNode
  <2>7. CASE Connect \/ Changes \/ UNCHANGED vars
    <3>1. UNCHANGED <<calls, profSel, current>>
      BY <2>7 DEF Connect, Changes, Change, vars, page
    <3> QED BY <2>4, <3>1
  <2>8. CASE Render
    <3>1. PICK p : /\ profSel' = Value(p, options')
                   /\ calls' = <<[profile |-> p, password |-> "none"]>>
      BY <2>8 DEF Render
    <3>2. profSel' \in {p, None} /\ current'.inspected = None
      BY <2>8, <3>1 DEF Render, Value
    <3>3. calls' # << >> /\ calls'[Len(calls')].profile = p
      BY <3>1
    <3> QED BY <2>0, <3>2, <3>3 DEF SettleInv, PickersSettle
  <2> QED BY <2>1, <2>2, <2>3, <2>5, <2>6, <2>7, <2>8 DEF Next, Page
<1>3. SettleInv => PickersSettle
  BY DEF SettleInv
<1> QED BY <1>1, <1>2, <1>3, PTL DEF Spec
=============================================================================
