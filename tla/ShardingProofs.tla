--------------------------- MODULE ShardingProofs ---------------------------
(***************************************************************************)
(* Proofs about Sharding, for any number of shards, of handlers and of     *)
(* lost links: where the handlers of a pattern are while the client of a   *)
(* shard connects again, and when the mesh emits 'connect'.                *)
(***************************************************************************)
EXTENDS Sharding, SequenceTheorems, TLAPS

-----------------------------------------------------------------------------
(* Streams.                                                                *)

LEMMA AppendFacts ==
    ASSUME NEW S, NEW q \in Seq(S), NEW m \in S
    PROVE  /\ Append(q, m) \in Seq(S) /\ Append(q, m) # <<>> /\ Len(Append(q, m)) = Len(q) + 1
           /\ \A i \in DOMAIN Append(q, m) : \/ i \in DOMAIN q /\ Append(q, m)[i] = q[i]
                                             \/ i = Len(q) + 1 /\ Append(q, m)[i] = m
           /\ Append(q, m)[Len(Append(q, m))] = m
  <1>1. /\ Append(q, m) \in Seq(S) /\ Len(Append(q, m)) = Len(q) + 1
        /\ \A i \in 1 .. Len(q) : Append(q, m)[i] = q[i]
        /\ Append(q, m)[Len(q) + 1] = m
        /\ Len(q) \in Nat
    BY AppendProperties
  <1>2. DOMAIN Append(q, m) = 1 .. Len(q) + 1 /\ DOMAIN q = 1 .. Len(q)
    BY <1>1
  <1>3. Append(q, m) # <<>>
    BY <1>1
  <1> QED
    BY <1>1, <1>2, <1>3

LEMMA TailFacts ==
    ASSUME NEW S, NEW q \in Seq(S), q # <<>>
    PROVE  /\ Head(q) = q[1] /\ 1 \in DOMAIN q /\ Head(q) \in S /\ Tail(q) \in Seq(S)
           /\ \A i \in DOMAIN Tail(q) : i \in Nat \ {0} /\ i + 1 \in DOMAIN q /\ Tail(q)[i] = q[i + 1]
           /\ \/ Tail(q) = <<>> /\ q[Len(q)] = Head(q)
              \/ /\ Tail(q) # <<>> /\ Tail(q)[Len(Tail(q))] = q[Len(q)]
                 /\ Len(q) \in DOMAIN q /\ Len(q) # 1
  <1>1. /\ Head(q) \in S /\ Head(q) = q[1] /\ Tail(q) \in Seq(S) /\ Len(Tail(q)) = Len(q) - 1
        /\ \A i \in 1 .. Len(Tail(q)) : Tail(q)[i] = q[i + 1]
        /\ Len(q) \in Nat /\ Len(q) >= 1
    BY HeadTailProperties
  <1>2. DOMAIN q = 1 .. Len(q) /\ DOMAIN Tail(q) = 1 .. Len(q) - 1
    BY <1>1
  <1>3. \A i \in DOMAIN Tail(q) :
          i \in Nat \ {0} /\ i + 1 \in DOMAIN q /\ Tail(q)[i] = q[i + 1]
    BY <1>1, <1>2
  <1>4. 1 \in DOMAIN q /\ Len(q) \in DOMAIN q
    BY <1>1, <1>2
  <1>5. \/ Tail(q) = <<>> /\ q[Len(q)] = Head(q)
        \/ /\ Tail(q) # <<>> /\ Tail(q)[Len(Tail(q))] = q[Len(q)]
           /\ Len(q) \in DOMAIN q /\ Len(q) # 1
    <2>1. Tail(q) = <<>> <=> Len(q) = 1
      BY <1>1, EmptySeq
    <2>2. CASE Len(q) = 1
      BY <1>1, <2>1, <2>2
    <2>3. CASE Len(q) # 1
      <3>1. Tail(q) # <<>> /\ Len(Tail(q)) \in 1 .. Len(Tail(q)) /\ Len(Tail(q)) + 1 = Len(q)
        BY <1>1, <2>1, <2>3
      <3>2. Tail(q)[Len(Tail(q))] = q[Len(q)]
        BY <1>1, <3>1
      <3> QED
        BY <1>4, <2>3, <3>1, <3>2
    <2> QED
      BY <2>2, <2>3
  <1> QED
    BY <1>1, <1>3, <1>4, <1>5

\* What the broker of a shard is told last is what it will have heard.
LEMMA HeardAppended ==
    ASSUME NEW s \in Shard, NEW m \in Who, toBroker[s] \in Seq(Who),
           toBroker'[s] = Append(toBroker[s], m), m # "hello"
    PROVE  Heard(s)' <=> m # "off"
  <1>1. toBroker'[s] # <<>> /\ toBroker'[s][Len(toBroker'[s])] = m
    BY AppendFacts
  <1> QED
    BY <1>1 DEF Heard

LEMMA HeardUnchanged ==
    ASSUME NEW s \in Shard, toBroker'[s] = toBroker[s], subs'[s] = subs[s]
    PROVE  Heard(s)' <=> Heard(s)
  BY DEF Heard

-----------------------------------------------------------------------------
(* The calls of subscribe().                                               *)

\* Handlers leave the tables of the shards, which hear of it if none is left.
LEMMA UnsubscribedFacts ==
    ASSUME IInv, NEW new \in [Shard -> SUBSET Handler], Unsubscribed(new, toBroker),
           \A s \in Shard : new[s] \subseteq table[s],
           link' \in [Shard -> Stage],
           \A s \in Shard :
             \/ link'[s] = "down" /\ toClient'[s] = <<>> /\ subs'[s] = FALSE
             \/ /\ link'[s] = link[s] /\ subs'[s] = subs[s]
                /\ \A i \in DOMAIN toClient'[s] : toClient'[s][i] = "replay" => link[s] # "hello"
                /\ link[s] = "down" => toClient'[s] = <<>>
    PROVE  /\ table' = new /\ toBroker' \in [Shard -> Seq(Who)]
           /\ StreamsAgree' /\ BrokerFollows'
  <1>1. /\ table' = new
        /\ \A s \in Shard :
             toBroker'[s] = IF link'[s] = "down" THEN <<>>
                            ELSE IF Lasts(table[s], new[s]) THEN toBroker[s]
                            ELSE Append(toBroker[s], "off")
    BY DEF Unsubscribed
  <1>2. \A s \in Shard : toBroker[s] \in Seq(Who) /\ Append(toBroker[s], "off") \in Seq(Who)
    BY AppendFacts DEF IInv, TypeOK, Who
  <1>3. toBroker' \in [Shard -> Seq(Who)]
    <2>1. \A s \in Shard : toBroker'[s] \in Seq(Who)
      <3> SUFFICES ASSUME NEW s \in Shard PROVE toBroker'[s] \in Seq(Who)
        OBVIOUS
      <3>1. <<>> \in Seq(Who)
        OBVIOUS
      <3>2. toBroker'[s] \in {<<>>, toBroker[s], Append(toBroker[s], "off")}
        BY <1>1
      <3> QED
        BY <1>2, <3>1, <3>2
    <2> QED
      BY <2>1 DEF Unsubscribed
  <1>4. ASSUME NEW s \in Shard
        PROVE  /\ link'[s] = "down" => toBroker'[s] = <<>> /\ toClient'[s] = <<>> /\ ~subs'[s]
               /\ \A i \in DOMAIN toBroker'[s] :
                    /\ toBroker'[s][i] = "hello" => i = 1
                    /\ toBroker'[s][i] = "replay" => link'[s] # "hello"
               /\ link'[s] \in {"replay", "up"} => (Heard(s)' <=> table'[s] # {})
               /\ link'[s] = "hello" /\ table'[s] = {} => ~Heard(s)'
    <2>1. CASE link'[s] = "down"
      BY <1>1, <2>1 DEF IInv, StreamsAgree
    <2>2. CASE link'[s] # "down" /\ Lasts(table[s], new[s])
      <3>1. toBroker'[s] = toBroker[s] /\ subs'[s] = subs[s] /\ link'[s] = link[s]
        BY <1>1, <2>2
      <3>2. table'[s] = {} <=> table[s] = {}
        BY <1>1, <2>2 DEF Lasts
      <3> QED
        BY <2>2, <3>1, <3>2, HeardUnchanged DEF IInv, StreamsAgree, BrokerFollows
    <2>3. CASE link'[s] # "down" /\ ~Lasts(table[s], new[s])
      <3>1. toBroker'[s] = Append(toBroker[s], "off") /\ link'[s] = link[s]
        BY <1>1, <2>3
      <3>2. table'[s] = {}
        BY <1>1, <2>3 DEF Lasts
      <3>3. ~Heard(s)'
        BY <1>2, <3>1, HeardAppended DEF Who
      <3>4. \A i \in DOMAIN toBroker'[s] : \/ i \in DOMAIN toBroker[s] /\ toBroker'[s][i] = toBroker[s][i]
                                           \/ toBroker'[s][i] = "off"
        BY <1>2, <3>1, AppendFacts DEF Who
      <3> QED
        BY <2>3, <3>1, <3>2, <3>3, <3>4 DEF IInv, StreamsAgree
    <2> QED
      BY <2>1, <2>2, <2>3
  <1>5. StreamsAgree'
    BY <1>4 DEF StreamsAgree, IInv
  <1>6. BrokerFollows'
    BY <1>4 DEF BrokerFollows
  <1> QED
    BY <1>1, <1>3, <1>5, <1>6

\* Some of what calls wait for is answered, or has failed.
LEMMA AnswersFacts ==
    ASSUME IInv, NEW ans \in [Handler -> [Shard -> {"none", "sent", "ok", "failed"}]],
           Answers(ans, toBroker),
           \A h \in Handler, s \in Shard :
             ans[h][s] = answer[h][s] \/ (answer[h][s] = "sent" /\ ans[h][s] \in {"ok", "failed"}),
           link' \in [Shard -> Stage],
           \A s \in Shard :
             \/ link'[s] = "down" /\ toClient'[s] = <<>> /\ subs'[s] = FALSE
             \/ /\ link'[s] = link[s] /\ subs'[s] = subs[s]
                /\ \A i \in DOMAIN toClient'[s] : toClient'[s][i] = "replay" => link[s] # "hello"
                /\ link[s] = "down" => toClient'[s] = <<>>
    PROVE  /\ table' \in [Shard -> SUBSET Handler] /\ toBroker' \in [Shard -> Seq(Who)]
           /\ status' \in [Handler -> {"idle", "asked", "held", "off", "failed"}]
           /\ answer' \in [Handler -> [Shard -> {"none", "sent", "ok", "failed"}]]
           /\ StreamsAgree' /\ BrokerFollows' /\ CallsAgree'
  <1> DEFINE done == {h \in Handler : status[h] = "asked" /\ \A s \in Shard : ans[h][s] # "sent"}
             refused == {h \in done : \E s \in Shard : ans[h][s] = "failed"}
             new == [s \in Shard |-> table[s] \ {h \in refused : s \in Unwound(h, ans)}]
  <1>1. /\ answer' = ans
        /\ status' = [h \in Handler |-> IF h \in refused THEN "failed"
                                        ELSE IF h \in done THEN "held" ELSE status[h]]
        /\ Unsubscribed(new, toBroker)
    BY DEF Answers
  <1>2. /\ new \in [Shard -> SUBSET Handler]
        /\ \A s \in Shard : new[s] = table[s] \ {h \in refused : s \in Unwound(h, ans)}
    BY DEF IInv, TypeOK
  <1>3. /\ done \subseteq Handler /\ refused \subseteq done
        /\ \A h \in done : status[h] = "asked" /\ \A s \in Shard : ans[h][s] # "sent"
        /\ \A h \in refused : \E s \in Shard : ans[h][s] = "failed"
        /\ \A h \in done : h \notin refused => \A s \in Shard : ans[h][s] # "failed"
    OBVIOUS
  <1> HIDE DEF done, refused, new
  <1>4. /\ table' = new /\ toBroker' \in [Shard -> Seq(Who)] /\ StreamsAgree' /\ BrokerFollows'
    <2>1. \A s \in Shard : new[s] \subseteq table[s]
      BY <1>2
    <2> QED
      BY <1>1, <1>2, <2>1, UnsubscribedFacts
  <1>5. status' \in [Handler -> {"idle", "asked", "held", "off", "failed"}]
    BY <1>1 DEF IInv, TypeOK
  <1>6. CallsAgree'
    <2> SUFFICES ASSUME NEW h \in Handler, NEW s \in Shard
                 PROVE  /\ status'[h] \in {"asked", "held"} => h \in table'[s]
                        /\ status'[h] = "off" \/ (status'[h] = "failed" /\ answer'[h][s] = "ok")
                             => h \notin table'[s]
                        /\ answer'[h][s] = "sent" => status'[h] = "asked"
      BY DEF CallsAgree
    <2>1. status'[h] = IF h \in refused THEN "failed" ELSE IF h \in done THEN "held" ELSE status[h]
      BY <1>1
    <2>2. CASE h \in refused
      <3>1. status'[h] = "failed" /\ h \in done
        BY <1>3, <2>1, <2>2
      <3>2. answer'[h][s] # "sent"
        BY <1>1, <1>3, <3>1
      <3>3. answer'[h][s] = "ok" => s \in Unwound(h, ans)
        BY <1>1, <1>3, <2>2, <3>1 DEF Unwound
      <3> QED
        BY <1>2, <1>4, <2>2, <3>1, <3>2, <3>3
    <2>3. CASE h \notin refused
      <3>1. h \in table'[s] <=> h \in table[s]
        BY <1>2, <1>4, <2>3
      <3>2. CASE h \in done
        BY <1>1, <1>3, <2>1, <2>3, <3>1, <3>2 DEF IInv, CallsAgree
      <3>3. CASE h \notin done
        <4>1. status'[h] = status[h]
          BY <2>1, <2>3, <3>3
        <4>2. answer[h][s] # "sent" => answer'[h][s] = answer[h][s]
          BY <1>1
        <4>3. answer'[h][s] = "sent" => answer[h][s] = "sent"
          BY <1>1
        <4> QED
          BY <3>1, <4>1, <4>2, <4>3 DEF IInv, CallsAgree
      <3> QED
        BY <3>2, <3>3
    <2> QED
      BY <2>2, <2>3
  <1> QED
    BY <1>1, <1>2, <1>4, <1>5, <1>6

-----------------------------------------------------------------------------
(* The inductive invariant, action by action.                              *)

LEMMA InitIInv == Init => IInv
  <1> SUFFICES ASSUME Init PROVE IInv
    OBVIOUS
  <1>1. <<>> \in Seq(Who) /\ MaxBreaks \in Nat /\ FALSE \in BOOLEAN
    BY ShardingAssumption
  <1>2. TypeOK
    <2>1. subs \in [Shard -> BOOLEAN] /\ allUp \in BOOLEAN /\ closed \in BOOLEAN
          /\ outage \in BOOLEAN /\ calling \in BOOLEAN
      BY Zenon DEF Init
    <2>2. /\ link \in [Shard -> Stage]
          /\ trying \in [Shard -> {"nobody", "call", "timer"}]
          /\ table \in [Shard -> SUBSET Handler]
          /\ toBroker \in [Shard -> Seq(Who)] /\ toClient \in [Shard -> Seq(Who)]
      BY <1>1 DEF Init, Stage
    <2>3. /\ status \in [Handler -> {"idle", "asked", "held", "off", "failed"}]
          /\ answer \in [Handler -> [Shard -> {"none", "sent", "ok", "failed"}]]
          /\ breaks \in 0 .. MaxBreaks /\ connects \in Nat /\ awaited \subseteq Shard
      BY <1>1 DEF Init
    <2> QED
      BY <2>1, <2>2, <2>3 DEF TypeOK
  <1>3. StreamsAgree /\ CallsAgree /\ NoOutage
    BY DEF Init, StreamsAgree, CallsAgree, NoOutage
  <1>4. BrokerFollows
    BY DEF Init, BrokerFollows
  <1> QED
    BY <1>2, <1>3, <1>4 DEF IInv

LEMMA SubscribeStep ==
    ASSUME IInv, NEW h \in Handler, Subscribe(h)
    PROVE  IInv'
  <1> DEFINE asks == {s \in Shard : table[s] = {} /\ Linked(s)}
  <1>1. /\ status[h] = "idle"
        /\ status' = [status EXCEPT ![h] = IF asks = {} THEN "held" ELSE "asked"]
        /\ answer' = [answer EXCEPT ![h] = [s \in Shard |-> IF s \in asks THEN "sent" ELSE "ok"]]
        /\ table' = [s \in Shard |-> table[s] \cup {h}]
        /\ toBroker' = [s \in Shard |-> IF s \in asks THEN Append(toBroker[s], h) ELSE toBroker[s]]
        /\ UNCHANGED <<link, trying, toClient, subs, calling, awaited, allUp, closed, connects,
                       outage, breaks>>
    BY DEF Subscribe, shardVars, meshVars
  <1>2. \A s \in Shard : s \in asks <=> table[s] = {} /\ link[s] # "down"
    BY DEF Linked
  <1> HIDE DEF asks
  <1>3. h \in Who /\ h # "hello" /\ h # "off" /\ h # "replay"
    BY ShardingAssumption DEF Who
  <1>4. \A s \in Shard : toBroker[s] \in Seq(Who)
    BY DEF IInv, TypeOK
  <1>5. \A s \in Shard : toBroker'[s] \in Seq(Who)
    <2>1. \A s \in Shard : Append(toBroker[s], h) \in Seq(Who)
      BY <1>3, <1>4, AppendFacts
    <2> QED
      BY <1>1, <1>4, <2>1
  <1>6. TypeOK'
    <2>1. toBroker' \in [Shard -> Seq(Who)]
      BY <1>1, <1>5
    <2>2. /\ status' \in [Handler -> {"idle", "asked", "held", "off", "failed"}]
          /\ answer' \in [Handler -> [Shard -> {"none", "sent", "ok", "failed"}]]
          /\ table' \in [Shard -> SUBSET Handler]
      BY <1>1 DEF IInv, TypeOK
    <2> QED
      BY <1>1, <2>1, <2>2 DEF IInv, TypeOK
  <1>7. ASSUME NEW s \in Shard
        PROVE  /\ link'[s] = "down" => toBroker'[s] = <<>> /\ toClient'[s] = <<>> /\ ~subs'[s]
               /\ \A i \in DOMAIN toBroker'[s] :
                    /\ toBroker'[s][i] = "hello" => i = 1
                    /\ toBroker'[s][i] = "replay" => link'[s] # "hello"
               /\ link'[s] \in {"replay", "up"} => Heard(s)'
    <2>1. CASE s \in asks
      <3>1. toBroker'[s] = Append(toBroker[s], h) /\ link[s] # "down"
        BY <1>1, <1>2, <2>1
      <3>2. Heard(s)'
        BY <1>3, <1>4, <3>1, HeardAppended
      <3>3. \A i \in DOMAIN toBroker'[s] :
              \/ i \in DOMAIN toBroker[s] /\ toBroker'[s][i] = toBroker[s][i]
              \/ toBroker'[s][i] = h
        BY <1>3, <1>4, <3>1, AppendFacts
      <3> QED
        BY <1>1, <1>3, <3>1, <3>2, <3>3 DEF IInv, StreamsAgree
    <2>2. CASE s \notin asks
      <3>1. /\ toBroker'[s] = toBroker[s] /\ link'[s] = link[s] /\ subs'[s] = subs[s]
            /\ link[s] = "down" \/ table[s] # {}
        BY <1>1, <1>2, <2>2
      <3>2. Heard(s)' <=> Heard(s)
        BY <3>1, HeardUnchanged
      <3>3. /\ link[s] = "down" => toBroker[s] = <<>> /\ toClient[s] = <<>> /\ ~subs[s]
            /\ \A i \in DOMAIN toBroker[s] :
                 /\ toBroker[s][i] = "hello" => i = 1
                 /\ toBroker[s][i] = "replay" => link[s] # "hello"
            /\ link[s] \in {"replay", "up"} /\ table[s] # {} => Heard(s)
        BY DEF IInv, StreamsAgree, BrokerFollows
      <3> QED
        BY <1>1, <3>1, <3>2, <3>3
    <2> QED
      BY <2>1, <2>2
  <1>8. StreamsAgree'
    BY <1>1, <1>7 DEF StreamsAgree, IInv
  <1>9. BrokerFollows'
    BY <1>1, <1>7 DEF BrokerFollows
  <1>10. CallsAgree'
    <2> SUFFICES ASSUME NEW g \in Handler, NEW s \in Shard
                 PROVE  /\ status'[g] \in {"asked", "held"} => g \in table'[s]
                        /\ status'[g] = "off" \/ (status'[g] = "failed" /\ answer'[g][s] = "ok")
                             => g \notin table'[s]
                        /\ answer'[g][s] = "sent" => status'[g] = "asked"
      BY DEF CallsAgree
    <2>1. CASE g = h
      BY <1>1, <2>1 DEF IInv, TypeOK
    <2>2. CASE g # h
      <3>1. status'[g] = status[g] /\ answer'[g] = answer[g] /\ (g \in table'[s] <=> g \in table[s])
        BY <1>1, <2>2
      <3> QED
        BY <3>1 DEF IInv, CallsAgree
    <2> QED
      BY <2>1, <2>2
  <1>11. NoOutage'
    BY <1>1 DEF IInv, NoOutage, Linked
  <1> QED
    BY <1>6, <1>8, <1>9, <1>10, <1>11 DEF IInv

LEMMA OffStep ==
    ASSUME IInv, NEW h \in Handler, Off(h)
    PROVE  IInv'
  <1> DEFINE new == [s \in Shard |-> table[s] \ {h}]
  <1>1. /\ status[h] = "held" /\ status' = [status EXCEPT ![h] = "off"]
        /\ Unsubscribed(new, toBroker)
        /\ UNCHANGED <<link, trying, toClient, subs, calling, awaited, allUp, closed, connects,
                       outage, answer, breaks>>
    BY DEF Off, shardVars, meshVars
  <1>2. /\ new \in [Shard -> SUBSET Handler]
        /\ \A s \in Shard : new[s] = table[s] \ {h}
    BY DEF IInv, TypeOK
  <1> HIDE DEF new
  <1>3. /\ table' = new /\ toBroker' \in [Shard -> Seq(Who)]
        /\ StreamsAgree' /\ BrokerFollows'
    <2>1. \A s \in Shard : new[s] \subseteq table[s]
      BY <1>2
    <2>2. link' \in [Shard -> Stage]
      BY <1>1 DEF IInv, TypeOK
    <2>3. \A s \in Shard :
            /\ link'[s] = link[s] /\ subs'[s] = subs[s]
            /\ \A i \in DOMAIN toClient'[s] : toClient'[s][i] = "replay" => link[s] # "hello"
            /\ link[s] = "down" => toClient'[s] = <<>>
      BY <1>1 DEF IInv, StreamsAgree
    <2> QED
      BY <1>1, <1>2, <2>1, <2>2, <2>3, UnsubscribedFacts
  <1>4. TypeOK'
    BY <1>1, <1>2, <1>3 DEF IInv, TypeOK
  <1>5. CallsAgree'
    BY <1>1, <1>2, <1>3 DEF IInv, TypeOK, CallsAgree
  <1>6. NoOutage'
    BY <1>1 DEF IInv, NoOutage, Linked
  <1> QED
    BY <1>3, <1>4, <1>5, <1>6 DEF IInv

\* A subscribe() is answered by one shard, or the request times out.
LEMMA AnswerStep ==
    ASSUME IInv, NEW h \in Handler, NEW s \in Shard, Answered(h, s) \/ TimesOut(h, s)
    PROVE  IInv'
  <1>1. PICK a \in {"sent", "ok", "failed", "none"} :
          /\ a = answer[h][s] \/ (answer[h][s] = "sent" /\ a \in {"ok", "failed"})
          /\ Answers([answer EXCEPT ![h][s] = a], toBroker)
    <2>1. answer[h][s] \in {"none", "sent", "ok", "failed"}
      BY DEF IInv, TypeOK
    <2>2. CASE Answered(h, s)
      BY <2>1, <2>2 DEF Answered
    <2>3. CASE TimesOut(h, s)
      BY <2>1, <2>3 DEF TimesOut
    <2> QED
      BY <2>2, <2>3
  <1> DEFINE ans == [answer EXCEPT ![h][s] = a]
  <1>2. /\ ans \in [Handler -> [Shard -> {"none", "sent", "ok", "failed"}]]
        /\ \A g \in Handler, r \in Shard :
             ans[g][r] = answer[g][r] \/ (answer[g][r] = "sent" /\ ans[g][r] \in {"ok", "failed"})
    BY <1>1 DEF IInv, TypeOK
  <1>3. Answers(ans, toBroker)
    BY <1>1
  <1> HIDE DEF ans
  <1>4. /\ UNCHANGED <<link, trying, subs, calling, awaited, allUp, closed, connects, outage>>
        /\ breaks' \in 0 .. MaxBreaks
        /\ toClient' = toClient \/ (toClient[s] # <<>> /\ toClient' = [toClient EXCEPT ![s] = Tail(@)])
    BY ShardingAssumption DEF Answered, TimesOut, shardVars, meshVars, Fault, IInv, TypeOK
  <1>5. \A r \in Shard : /\ toClient'[r] \in Seq(Who)
                         /\ toClient[r] = <<>> => toClient'[r] = <<>>
                         /\ \A i \in DOMAIN toClient'[r] : \E j \in DOMAIN toClient[r] :
                              toClient'[r][i] = toClient[r][j]
    <2> SUFFICES ASSUME NEW r \in Shard
                 PROVE  /\ toClient'[r] \in Seq(Who)
                        /\ toClient[r] = <<>> => toClient'[r] = <<>>
                        /\ \A i \in DOMAIN toClient'[r] : \E j \in DOMAIN toClient[r] :
                             toClient'[r][i] = toClient[r][j]
      OBVIOUS
    <2>1. toClient[r] \in Seq(Who)
      BY DEF IInv, TypeOK
    <2>2. \/ toClient'[r] = toClient[r]
          \/ toClient[r] # <<>> /\ toClient'[r] = Tail(toClient[r])
      BY <1>4 DEF IInv, TypeOK
    <2> QED
      <3>1. CASE toClient'[r] = toClient[r]
        BY <2>1, <3>1
      <3>2. CASE toClient[r] # <<>> /\ toClient'[r] = Tail(toClient[r])
        <4>1. /\ toClient'[r] \in Seq(Who)
              /\ \A i \in DOMAIN toClient'[r] : /\ i + 1 \in DOMAIN toClient[r]
                                                /\ toClient'[r][i] = toClient[r][i + 1]
          BY <2>1, <3>2, TailFacts
        <4> QED
          BY <3>2, <4>1
      <3> QED
        BY <2>2, <3>1, <3>2
  <1>6. \A r \in Shard :
            /\ link'[r] = link[r] /\ subs'[r] = subs[r]
            /\ \A i \in DOMAIN toClient'[r] : toClient'[r][i] = "replay" => link[r] # "hello"
            /\ link[r] = "down" => toClient'[r] = <<>>
    BY <1>4, <1>5 DEF IInv, StreamsAgree
  <1>7. link' \in [Shard -> Stage]
    BY <1>4 DEF IInv, TypeOK
  <1>8. /\ table' \in [Shard -> SUBSET Handler] /\ toBroker' \in [Shard -> Seq(Who)]
        /\ status' \in [Handler -> {"idle", "asked", "held", "off", "failed"}]
        /\ answer' \in [Handler -> [Shard -> {"none", "sent", "ok", "failed"}]]
        /\ StreamsAgree' /\ BrokerFollows' /\ CallsAgree'
    BY <1>2, <1>3, <1>6, <1>7, AnswersFacts
  <1>9. TypeOK'
    <2>1. toClient' \in [Shard -> Seq(Who)]
      <3>1. toClient \in [Shard -> Seq(Who)] /\ \A r \in Shard : toClient'[r] \in Seq(Who)
        BY <1>5 DEF IInv, TypeOK
      <3>2. CASE toClient' = toClient
        BY <3>1, <3>2
      <3>3. CASE toClient' = [toClient EXCEPT ![s] = Tail(@)]
        BY <3>1, <3>3
      <3> QED
        BY <1>4, <3>2, <3>3
    <2> QED
      BY <1>4, <1>8, <2>1 DEF IInv, TypeOK
  <1>10. NoOutage'
    BY <1>4 DEF IInv, NoOutage, Linked
  <1> QED
    BY <1>8, <1>9, <1>10 DEF IInv

\* The broker of a shard reads the next request of its link.
LEMMA ServeStep ==
    ASSUME IInv, NEW s \in Shard, Serve(s)
    PROVE  IInv'
  <1> DEFINE who == Head(toBroker[s])
  <1>1. /\ toBroker[s] # <<>>
        /\ subs' = [subs EXCEPT ![s] = IF who = "hello" THEN @ ELSE who # "off"]
        /\ toClient' = [toClient EXCEPT ![s] = IF who = "off" THEN @ ELSE Append(@, who)]
        /\ toBroker' = [toBroker EXCEPT ![s] = Tail(@)]
        /\ UNCHANGED <<link, trying, table, status, answer, calling, awaited, allUp, closed,
                       connects, outage, breaks>>
    BY DEF Serve, meshVars
  <1>2. toBroker[s] \in Seq(Who) /\ toClient[s] \in Seq(Who)
    BY DEF IInv, TypeOK
  <1>3. /\ who = toBroker[s][1] /\ 1 \in DOMAIN toBroker[s] /\ who \in Who
        /\ Tail(toBroker[s]) \in Seq(Who)
        /\ \A i \in DOMAIN Tail(toBroker[s]) :
             /\ i \in Nat \ {0} /\ i + 1 \in DOMAIN toBroker[s]
             /\ Tail(toBroker[s])[i] = toBroker[s][i + 1]
        /\ \/ Tail(toBroker[s]) = <<>> /\ toBroker[s][Len(toBroker[s])] = who
           \/ /\ Tail(toBroker[s]) # <<>>
              /\ Tail(toBroker[s])[Len(Tail(toBroker[s]))] = toBroker[s][Len(toBroker[s])]
              /\ Len(toBroker[s]) \in DOMAIN toBroker[s] /\ Len(toBroker[s]) # 1
    BY <1>1, <1>2, TailFacts
  <1>4. link[s] # "down"
    BY <1>1 DEF IInv, StreamsAgree
  <1> HIDE DEF who
  <1>5. /\ toBroker'[s] = Tail(toBroker[s])
        /\ subs'[s] = (IF who = "hello" THEN subs[s] ELSE who # "off")
        /\ toClient'[s] = toClient[s] \/ toClient'[s] = Append(toClient[s], who)
    BY <1>1 DEF IInv, TypeOK
  <1>6. Append(toClient[s], who) \in Seq(Who)
    BY <1>2, <1>3, AppendFacts
  <1>7. \A r \in Shard \ {s} : /\ toBroker'[r] = toBroker[r] /\ subs'[r] = subs[r]
                               /\ toClient'[r] = toClient[r]
    BY <1>1 DEF IInv, TypeOK
  <1>8. subs' \in [Shard -> BOOLEAN]
    <2>1. (IF who = "hello" THEN subs[s] ELSE who # "off") \in BOOLEAN
      <3>1. subs[s] \in BOOLEAN
        BY DEF IInv, TypeOK
      <3> QED
        BY <3>1, Zenon
    <2>2. subs \in [Shard -> BOOLEAN]
      BY DEF IInv, TypeOK
    <2> DEFINE b == IF who = "hello" THEN subs[s] ELSE who # "off"
    <2>3. subs' = [subs EXCEPT ![s] = b]
      BY <1>1
    <2> HIDE DEF b
    <2>4. b \in BOOLEAN
      BY <2>1 DEF b
    <2> QED
      BY <2>2, <2>3, <2>4
  <1>9. TypeOK'
    <2>1. toBroker' \in [Shard -> Seq(Who)]
      BY <1>1, <1>3 DEF IInv, TypeOK
    <2>2. toClient' \in [Shard -> Seq(Who)]
      BY <1>1, <1>6 DEF IInv, TypeOK
    <2> QED
      BY <1>1, <1>8, <2>1, <2>2 DEF IInv, TypeOK
  <1>10. Heard(s)' <=> Heard(s)
    <2>1. CASE Tail(toBroker[s]) = <<>>
      BY <1>1, <1>3, <1>5, <2>1 DEF Heard
    <2>2. CASE Tail(toBroker[s]) # <<>>
      <3>1. toBroker[s][Len(toBroker[s])] # "hello"
        BY <1>3, <2>2 DEF IInv, StreamsAgree
      <3> QED
        BY <1>1, <1>3, <1>5, <2>2, <3>1 DEF Heard
    <2> QED
      BY <2>1, <2>2
  <1>11. StreamsAgree'
    <2> SUFFICES ASSUME NEW r \in Shard
                 PROVE  /\ link'[r] = "down" =>
                             toBroker'[r] = <<>> /\ toClient'[r] = <<>> /\ ~subs'[r]
                        /\ \A i \in DOMAIN toBroker'[r] :
                             /\ toBroker'[r][i] = "hello" => i = 1
                             /\ toBroker'[r][i] = "replay" => link'[r] # "hello"
                        /\ \A i \in DOMAIN toClient'[r] :
                             toClient'[r][i] = "replay" => link'[r] # "hello"
      BY DEF StreamsAgree
    <2>1. CASE r # s
      BY <1>1, <1>7, <2>1 DEF IInv, StreamsAgree
    <2>2. CASE r = s
      <3>1. \A i \in DOMAIN toBroker'[s] : /\ toBroker'[s][i] # "hello"
                                           /\ toBroker'[s][i] = "replay" => link'[s] # "hello"
        <4>1. \A i \in DOMAIN toBroker'[s] : /\ i + 1 # 1 /\ i + 1 \in DOMAIN toBroker[s]
                                             /\ toBroker'[s][i] = toBroker[s][i + 1]
          BY <1>3, <1>5
        <4> QED
          BY <1>1, <4>1 DEF IInv, StreamsAgree
      <3>2. who = "replay" => link[s] # "hello"
        BY <1>3 DEF IInv, StreamsAgree
      <3>3. \A i \in DOMAIN toClient'[s] : toClient'[s][i] = "replay" => link'[s] # "hello"
        <4>1. CASE toClient'[s] = toClient[s]
          BY <1>1, <4>1 DEF IInv, StreamsAgree
        <4>2. CASE toClient'[s] = Append(toClient[s], who)
          <5>1. \A i \in DOMAIN toClient'[s] :
                  \/ i \in DOMAIN toClient[s] /\ toClient'[s][i] = toClient[s][i]
                  \/ toClient'[s][i] = who
            BY <1>2, <1>3, <4>2, AppendFacts
          <5> QED
            BY <1>1, <3>2, <5>1 DEF IInv, StreamsAgree
        <4> QED
          BY <1>5, <4>1, <4>2
      <3> QED
        BY <1>1, <1>4, <2>2, <3>1, <3>3
    <2> QED
      BY <2>1, <2>2
  <1>12. BrokerFollows'
    <2>1. \A r \in Shard : Heard(r)' <=> Heard(r)
      BY <1>7, <1>10, HeardUnchanged
    <2> QED
      BY <1>1, <2>1 DEF IInv, BrokerFollows
  <1>13. CallsAgree' /\ NoOutage'
    BY <1>1 DEF IInv, CallsAgree, NoOutage, Linked
  <1> QED
    BY <1>9, <1>11, <1>12, <1>13 DEF IInv

\* connect() is called, or the socket of a client cannot be opened.
LEMMA TryingStep ==
    ASSUME IInv, ConnectCall \/ \E s \in Shard : OpenFails(s)
    PROVE  IInv'
  <1>1. /\ UNCHANGED <<link, toClient, subs, closed, connects, outage, table, toBroker, status,
                       answer, breaks>>
        /\ allUp => allUp'
        /\ awaited' \subseteq Shard
        /\ trying' \in [Shard -> {"nobody", "call", "timer"}]
    BY DEF ConnectCall, OpenFails, Rejected, subVars, IInv, TypeOK
  <1>2. allUp' \in BOOLEAN /\ calling' \in BOOLEAN
    BY Zenon DEF ConnectCall, OpenFails, Rejected, IInv, TypeOK
  <1>3. TypeOK'
    BY <1>1, <1>2 DEF IInv, TypeOK
  <1>4. StreamsAgree' /\ CallsAgree' /\ NoOutage'
    BY <1>1 DEF IInv, StreamsAgree, CallsAgree, NoOutage, Linked
  <1>5. BrokerFollows'
    BY <1>1, HeardUnchanged DEF IInv, BrokerFollows
  <1> QED
    BY <1>3, <1>4, <1>5 DEF IInv

\* The socket is open and HELLO sent.
LEMMA OpenStep ==
    ASSUME IInv, NEW s \in Shard, Open(s)
    PROVE  IInv'
  <1>1. /\ link[s] = "down"
        /\ link' = [link EXCEPT ![s] = "hello"]
        /\ toBroker' = [toBroker EXCEPT ![s] = <<"hello">>]
        /\ UNCHANGED <<trying, toClient, subs, calling, awaited, allUp, closed, connects, outage,
                       table, status, answer, breaks>>
    BY DEF Open, meshVars, Linked
  <1>2. /\ link'[s] = "hello" /\ toBroker'[s] = <<"hello">> /\ toBroker'[s] # <<>>
        /\ toClient[s] = <<>> /\ ~subs[s]
        /\ \A r \in Shard \ {s} : link'[r] = link[r] /\ toBroker'[r] = toBroker[r]
    BY <1>1 DEF IInv, TypeOK, StreamsAgree
  <1>3. <<"hello">> \in Seq(Who) /\ DOMAIN <<"hello">> = {1} /\ <<"hello">>[1] = "hello"
        /\ Len(<<"hello">>) = 1
    BY DEF Who
  <1>4. TypeOK'
    BY <1>1, <1>3 DEF IInv, TypeOK, Stage
  <1>5. ~Heard(s)'
    BY <1>1, <1>2, <1>3 DEF Heard
  <1>6. StreamsAgree'
    BY <1>1, <1>2, <1>3 DEF IInv, StreamsAgree
  <1>7. BrokerFollows'
    <2>1. \A r \in Shard \ {s} : Heard(r)' <=> Heard(r)
      BY <1>1, <1>2, HeardUnchanged
    <2> QED
      BY <1>1, <1>2, <1>5, <2>1 DEF IInv, BrokerFollows
  <1>8. CallsAgree' /\ NoOutage'
    BY <1>1, <1>2 DEF IInv, CallsAgree, NoOutage, Linked
  <1> QED
    BY <1>4, <1>6, <1>7, <1>8 DEF IInv

\* What 'connect' of the client of s leaves of the mesh.
LEMMA GreetedFacts ==
    ASSUME IInv, NEW s \in Shard, Greeted(s)
    PROVE  /\ link' = [link EXCEPT ![s] = "up"] /\ link' \in [Shard -> Stage] /\ link'[s] = "up"
           /\ \A r \in Shard \ {s} : link'[r] = link[r]
           /\ trying' \in [Shard -> {"nobody", "call", "timer"}]
           /\ awaited' \subseteq Shard /\ connects' \in Nat
           /\ allUp' \in BOOLEAN /\ calling' \in BOOLEAN /\ outage' \in BOOLEAN
           /\ NoOutage'
           /\ connects' > connects => outage
  <1> DEFINE up == \A t \in Shard \ {s} : Linked(t)
  <1>1. /\ link' = [link EXCEPT ![s] = "up"]
        /\ trying' = [trying EXCEPT ![s] = "nobody"]
        /\ connects' = IF Announces(up) THEN connects + 1 ELSE connects
        /\ outage' = (outage /\ ~Announces(up))
        /\ allUp' = (up \/ (calling /\ awaited = {s}))
        /\ awaited' = awaited \ {s}
    BY DEF Greeted
  <1>2. /\ link' \in [Shard -> Stage] /\ link'[s] = "up"
        /\ \A r \in Shard \ {s} : link'[r] = link[r]
        /\ trying' \in [Shard -> {"nobody", "call", "timer"}]
        /\ awaited' \subseteq Shard
    BY <1>1 DEF IInv, TypeOK, Stage
  <1>3. allUp' \in BOOLEAN /\ calling' \in BOOLEAN /\ outage' \in BOOLEAN
    BY Zenon DEF Greeted
  <1>4. connects' \in Nat
    <2>1. connects' = connects + 1 \/ connects' = connects
      BY <1>1, Zenon
    <2> QED
      BY <2>1 DEF IInv, TypeOK
  <1>5. Announces(up) <=> up /\ ~allUp
    BY DEF Announces
  <1>6. up => \A r \in Shard : Linked(r)'
    BY <1>2 DEF Linked
  <1>7. ~outage => up /\ allUp
    BY DEF IInv, NoOutage
  <1>8. ~outage' => up
    BY <1>1, <1>5, <1>7
  <1>9. NoOutage'
    BY <1>1, <1>6, <1>8 DEF NoOutage
  <1>10. connects' > connects => outage
    <2>1. CASE Announces(up)
      BY <1>5, <1>7, <2>1
    <2>2. CASE ~Announces(up)
      <3>1. connects' = connects /\ connects \in Nat
        BY <1>1, <2>2 DEF IInv, TypeOK
      <3> QED
        BY <3>1
    <2> QED
      BY <2>1, <2>2
  <1> HIDE DEF up
  <1> QED
    BY <1>1, <1>2, <1>3, <1>4, <1>9, <1>10

\* The handshake goes on, or is over.
LEMMA HandshakeStep ==
    ASSUME IInv, NEW s \in Shard, Welcome(s) \/ Replayed(s)
    PROVE  IInv' /\ (connects' > connects => outage)
  <1>1. /\ toClient[s] # <<>> /\ toClient' = [toClient EXCEPT ![s] = Tail(@)]
        /\ UNCHANGED <<subs, table, status, answer, closed, breaks>>
    BY DEF Welcome, Replayed, subVars
  <1>2. /\ toClient[s] \in Seq(Who) /\ toBroker[s] \in Seq(Who)
        /\ toClient'[s] = Tail(toClient[s]) /\ \A r \in Shard \ {s} : toClient'[r] = toClient[r]
    BY <1>1 DEF IInv, TypeOK
  <1>3. /\ Tail(toClient[s]) \in Seq(Who)
        /\ Head(toClient[s]) = toClient[s][1] /\ 1 \in DOMAIN toClient[s]
        /\ \A i \in DOMAIN Tail(toClient[s]) : /\ i + 1 \in DOMAIN toClient[s]
                                               /\ Tail(toClient[s])[i] = toClient[s][i + 1]
    BY <1>1, <1>2, TailFacts
  <1>4. link[s] # "down"
    BY <1>1 DEF IInv, StreamsAgree
  <1>5. toClient' \in [Shard -> Seq(Who)]
    BY <1>1, <1>3 DEF IInv, TypeOK
  <1>6. CallsAgree'
    BY <1>1 DEF IInv, CallsAgree
  <1>7. CASE Greeted(s) /\ toBroker' = toBroker /\ (link[s] = "hello" => table[s] = {})
    <2>1. TypeOK'
      BY <1>1, <1>5, <1>7, GreetedFacts DEF IInv, TypeOK
    <2>2. /\ link'[s] = "up" /\ \A r \in Shard \ {s} : link'[r] = link[r]
      BY <1>7, GreetedFacts
    <2>3. StreamsAgree'
      BY <1>1, <1>2, <1>7, <2>2 DEF IInv, StreamsAgree
    <2>4. \A r \in Shard : Heard(r)' <=> Heard(r)
      BY <1>1, <1>7, HeardUnchanged
    <2>5. BrokerFollows'
      <3> SUFFICES ASSUME NEW r \in Shard
                   PROVE  /\ link'[r] \in {"replay", "up"} => (Heard(r)' <=> table'[r] # {})
                          /\ link'[r] = "hello" /\ table'[r] = {} => ~Heard(r)'
        BY DEF BrokerFollows
      <3>1. CASE r = s
        <4>1. Heard(s) <=> table[s] # {}
          BY <1>4, <1>7 DEF IInv, TypeOK, Stage, BrokerFollows
        <4> QED
          BY <1>1, <2>2, <2>4, <3>1, <4>1
      <3>2. CASE r # s
        BY <1>1, <2>2, <2>4, <3>2 DEF IInv, BrokerFollows
      <3> QED
        BY <3>1, <3>2
    <2> QED
      BY <1>6, <1>7, <2>1, <2>3, <2>5, GreetedFacts DEF IInv
  <1>8. CASE /\ table[s] # {}
             /\ link' = [link EXCEPT ![s] = "replay"]
             /\ toBroker' = [toBroker EXCEPT ![s] = Append(@, "replay")]
             /\ UNCHANGED <<trying, calling, awaited, allUp, connects, outage>>
    <2>1. /\ link' \in [Shard -> Stage] /\ link'[s] = "replay"
          /\ \A r \in Shard \ {s} : link'[r] = link[r] /\ toBroker'[r] = toBroker[r]
          /\ toBroker'[s] = Append(toBroker[s], "replay")
      BY <1>8 DEF IInv, TypeOK, Stage
    <2>2. /\ Append(toBroker[s], "replay") \in Seq(Who)
          /\ \A i \in DOMAIN toBroker'[s] :
               \/ i \in DOMAIN toBroker[s] /\ toBroker'[s][i] = toBroker[s][i]
               \/ toBroker'[s][i] = "replay"
      BY <1>2, <2>1, AppendFacts DEF Who
    <2>3. Heard(s)'
      BY <1>2, <2>1, HeardAppended DEF Who
    <2>4. \A r \in Shard \ {s} : Heard(r)' <=> Heard(r)
      BY <1>1, <2>1, HeardUnchanged
    <2>5. TypeOK'
      <3>1. toBroker' \in [Shard -> Seq(Who)]
        BY <1>8, <2>2 DEF IInv, TypeOK
      <3> QED
        BY <1>1, <1>5, <1>8, <2>1, <3>1 DEF IInv, TypeOK
    <2>6. StreamsAgree'
      <3> SUFFICES ASSUME NEW r \in Shard
                   PROVE  /\ link'[r] = "down" =>
                               toBroker'[r] = <<>> /\ toClient'[r] = <<>> /\ ~subs'[r]
                          /\ \A i \in DOMAIN toBroker'[r] :
                               /\ toBroker'[r][i] = "hello" => i = 1
                               /\ toBroker'[r][i] = "replay" => link'[r] # "hello"
                          /\ \A i \in DOMAIN toClient'[r] :
                               toClient'[r][i] = "replay" => link'[r] # "hello"
        BY DEF StreamsAgree
      <3>1. CASE r = s
        BY <2>1, <2>2, <3>1 DEF IInv, StreamsAgree
      <3>2. CASE r # s
        BY <1>1, <1>2, <2>1, <3>2 DEF IInv, StreamsAgree
      <3> QED
        BY <3>1, <3>2
    <2>7. BrokerFollows'
      BY <1>1, <1>8, <2>1, <2>3, <2>4 DEF IInv, BrokerFollows
    <2>8. NoOutage'
      BY <1>8, <2>1 DEF IInv, NoOutage, Linked
    <2>9. connects' > connects => outage
      BY <1>8 DEF IInv, TypeOK
    <2> QED
      BY <1>6, <2>5, <2>6, <2>7, <2>8, <2>9 DEF IInv
  <1>9. Replayed(s) => link[s] # "hello"
    BY <1>3 DEF Replayed, IInv, StreamsAgree
  <1> QED
    BY <1>7, <1>8, <1>9 DEF Welcome, Replayed, subVars

\* A link is lost, or its handshake fails.
LEMMA UnlinkedStep ==
    ASSUME IInv, NEW s \in Shard, HandshakeFails(s) \/ LinkLost(s)
    PROVE  IInv' /\ connects' = connects
  <1>1. /\ link' = [link EXCEPT ![s] = "down"]
        /\ toClient' = [toClient EXCEPT ![s] = <<>>]
        /\ subs' = [subs EXCEPT ![s] = FALSE]
        /\ outage' = TRUE
        /\ Answers(Failing(s), toBroker)
        /\ UNCHANGED <<closed, connects>>
    BY DEF HandshakeFails, LinkLost, Unlinked
  <1>2. /\ trying' \in [Shard -> {"nobody", "call", "timer"}]
        /\ awaited' \subseteq Shard /\ breaks' \in 0 .. MaxBreaks
    <2>1. breaks' \in 0 .. MaxBreaks
      <3>1. breaks < MaxBreaks /\ breaks' = breaks + 1
        BY DEF HandshakeFails, LinkLost, Fault
      <3> QED
        BY <3>1, ShardingAssumption DEF IInv, TypeOK
    <2>2. awaited' \subseteq Shard
      BY DEF HandshakeFails, LinkLost, Rejected, IInv, TypeOK
    <2>3. \/ trying' = [trying EXCEPT ![s] = IF @ = "call" THEN "nobody" ELSE @]
          \/ trying' = [trying EXCEPT ![s] = "timer"]
      BY DEF HandshakeFails, LinkLost
    <2>4. trying' \in [Shard -> {"nobody", "call", "timer"}]
      BY <2>3 DEF IInv, TypeOK
    <2> QED
      BY <2>1, <2>2, <2>4
  <1>3. allUp' \in BOOLEAN /\ calling' \in BOOLEAN
    BY Zenon DEF HandshakeFails, LinkLost, Rejected, IInv, TypeOK
  <1>4. link' \in [Shard -> Stage] /\ toClient' \in [Shard -> Seq(Who)] /\ subs' \in [Shard -> BOOLEAN]
    <2>1. <<>> \in Seq(Who) /\ FALSE \in BOOLEAN
      OBVIOUS
    <2> QED
      BY <1>1, <2>1 DEF IInv, TypeOK, Stage
  <1>5. \A r \in Shard :
          \/ link'[r] = "down" /\ toClient'[r] = <<>> /\ subs'[r] = FALSE
          \/ /\ link'[r] = link[r] /\ subs'[r] = subs[r]
             /\ \A i \in DOMAIN toClient'[r] : toClient'[r][i] = "replay" => link[r] # "hello"
             /\ link[r] = "down" => toClient'[r] = <<>>
    BY <1>1 DEF IInv, TypeOK, StreamsAgree
  <1>6. /\ Failing(s) \in [Handler -> [Shard -> {"none", "sent", "ok", "failed"}]]
        /\ \A h \in Handler, r \in Shard :
             \/ Failing(s)[h][r] = answer[h][r]
             \/ answer[h][r] = "sent" /\ Failing(s)[h][r] \in {"ok", "failed"}
    BY DEF Failing, IInv, TypeOK
  <1>7. /\ table' \in [Shard -> SUBSET Handler] /\ toBroker' \in [Shard -> Seq(Who)]
        /\ status' \in [Handler -> {"idle", "asked", "held", "off", "failed"}]
        /\ answer' \in [Handler -> [Shard -> {"none", "sent", "ok", "failed"}]]
        /\ StreamsAgree' /\ BrokerFollows' /\ CallsAgree'
    BY <1>1, <1>4, <1>5, <1>6, AnswersFacts
  <1>8. NoOutage'
    BY <1>1 DEF NoOutage
  <1>9. TypeOK'
    BY <1>1, <1>2, <1>3, <1>4, <1>7 DEF IInv, TypeOK
  <1> QED
    BY <1>1, <1>7, <1>8, <1>9 DEF IInv

LEMMA CloseStep ==
    ASSUME IInv, Close
    PROVE  IInv'
  <1>1. /\ closed' = TRUE /\ outage' = TRUE
        /\ link' = [s \in Shard |-> "down"]
        /\ trying' = [s \in Shard |-> IF trying[s] = "timer" THEN "nobody" ELSE trying[s]]
        /\ toBroker' = [s \in Shard |-> <<>>] /\ toClient' = [s \in Shard |-> <<>>]
        /\ subs' = [s \in Shard |-> FALSE]
        /\ UNCHANGED <<calling, awaited, allUp, connects, table, status, answer, breaks>>
    BY DEF Close
  <1>2. /\ link' \in [Shard -> Stage] /\ trying' \in [Shard -> {"nobody", "call", "timer"}]
        /\ toBroker' \in [Shard -> Seq(Who)] /\ toClient' \in [Shard -> Seq(Who)]
    <2>1. <<>> \in Seq(Who)
      OBVIOUS
    <2> QED
      BY <1>1, <2>1 DEF IInv, TypeOK, Stage
  <1>3. closed' \in BOOLEAN /\ outage' \in BOOLEAN /\ subs' \in [Shard -> BOOLEAN]
    BY <1>1, Zenon
  <1>4. TypeOK'
    BY <1>1, <1>2, <1>3 DEF IInv, TypeOK
  <1>5. StreamsAgree' /\ BrokerFollows' /\ NoOutage'
    BY <1>1 DEF StreamsAgree, BrokerFollows, NoOutage
  <1>6. CallsAgree'
    BY <1>1 DEF IInv, CallsAgree
  <1> QED
    BY <1>4, <1>5, <1>6 DEF IInv

LEMMA NextStep ==
    ASSUME IInv, [Next]_vars
    PROVE  IInv' /\ (connects' > connects => outage)
  <1>1. CASE \/ \E h \in Handler : Subscribe(h) \/ Off(h) \/ \E s \in Shard : Answered(h, s)
             \/ \E h \in Handler, s \in Shard : TimesOut(h, s)
             \/ \E s \in Shard : Serve(s) \/ Open(s) \/ OpenFails(s)
             \/ ConnectCall \/ Close
    <2>1. IInv'
      BY <1>1, SubscribeStep, OffStep, AnswerStep, ServeStep, OpenStep, TryingStep, CloseStep
    <2>2. connects' = connects /\ connects \in Nat
      BY <1>1 DEF Subscribe, Off, Answered, TimesOut, Serve, Open, OpenFails, ConnectCall, Close,
                  meshVars, IInv, TypeOK
    <2> QED
      BY <2>1, <2>2
  <1>2. CASE \E s \in Shard : Welcome(s) \/ Replayed(s)
    BY <1>2, HandshakeStep
  <1>3. CASE \E s \in Shard : HandshakeFails(s) \/ LinkLost(s)
    <2>1. IInv' /\ connects' = connects
      BY <1>3, UnlinkedStep
    <2> QED
      BY <2>1 DEF IInv, TypeOK
  <1>4. CASE UNCHANGED vars
    <2>1. UNCHANGED <<link, trying, toClient, subs, calling, awaited, allUp, closed, connects,
                      outage, table, toBroker, status, answer, breaks>>
      BY <1>4 DEF vars, shardVars, meshVars, subVars
    <2>2. TypeOK' /\ StreamsAgree' /\ CallsAgree' /\ NoOutage'
      BY <2>1 DEF IInv, TypeOK, StreamsAgree, CallsAgree, NoOutage, Linked
    <2>3. BrokerFollows'
      BY <2>1, HeardUnchanged DEF IInv, BrokerFollows
    <2> QED
      BY <2>1, <2>2, <2>3 DEF IInv, TypeOK
  <1> QED
    BY <1>1, <1>2, <1>3, <1>4 DEF Next

\* Where the handlers of a pattern are in the clients of the shards, what is on its way to the
\* brokers, and what the mesh knows of the links, at all times.
THEOREM Inductive == Spec => []IInv
  <1>1. IInv /\ [Next]_vars => IInv'
    BY NextStep
  <1> QED
    BY <1>1, InitIInv, PTL DEF Spec

\* Every variable of sharded-client.js, of the clients and the brokers has its type.
THEOREM TypeCorrect == Spec => []TypeOK
  <1>1. IInv => TypeOK
    BY DEF IInv
  <1> QED
    BY <1>1, Inductive, PTL

LEMMA QuietFacts ==
    ASSUME IInv, NEW s \in Shard, Quiet(s)
    PROVE  subs[s] <=> table[s] # {}
  BY DEF Quiet, Heard, IInv, BrokerFollows

\* While the program has the handle of a pattern, every shard that is linked has it too
\* (subscribe of sharded-client.js, _replay of client.js).
THEOREM HeldHolds == Spec => []HeldEverywhere
  <1>1. IInv => HeldEverywhere
    BY QuietFacts DEF IInv, CallsAgree, HeldEverywhere
  <1> QED
    BY <1>1, Inductive, PTL

\* A subscription that was given up, or refused by some shard, is on none of those that took
\* it, and no broker sends what no handler wants.
THEOREM NothingLeft == Spec => []NothingLeftBehind
  <1>1. IInv => NothingLeftBehind
    BY QuietFacts DEF IInv, CallsAgree, NothingLeftBehind
  <1> QED
    BY <1>1, Inductive, PTL

\* The mesh emits 'connect' on the edge: between two of them a client was without a link
\* (_onChildState).
THEOREM ConnectIsEdge == Spec => ConnectFollowsOutage
  <1>1. IInv /\ [Next]_vars => [connects' > connects => outage]_vars
    BY NextStep
  <1> QED
    BY <1>1, Inductive, PTL DEF Spec, ConnectFollowsOutage
=============================================================================
