--------------------------- MODULE TransferProofs ---------------------------
(***************************************************************************)
(* Proofs about what goes between the two computers.                       *)
(*                                                                         *)
(* FileTransfer, second part, for any number of jobs, files and blocks:    *)
(* the steps of the questions and answers about a file, of the loss of the *)
(* connection and of what the user does after it keep Inv.  With           *)
(* FileTransferSteps this makes Inv an invariant, and from it follow       *)
(* NothingTorn, DoneIsWhole, KeptAsItWas and NothingLeft.                  *)
(*                                                                         *)
(* PortForward, for streams of any capacity: StreamInv is inductive, and   *)
(* from it follows that a password login leaves no TestDelay in the        *)
(* forwarded bytes.                                                        *)
(***************************************************************************)
EXTENDS FileTransferSteps, PortForward, FiniteSetTheorems, TLAPS

-----------------------------------------------------------------------------
(* Decisions. *)

\* File k of job j fails, if anything does.
MayFail(j, k, v) ==
    /\ faulted \subseteq faulted' /\ faulted' \subseteq faulted \cup {<<j, k>>}
    /\ v <= 0 => faulted' = faulted

\* An offset is gone to, or the file fails and the offset that counts is 0.
LEMMA SoughtIs ==
    ASSUME NEW job, NEW j, NEW k, NEW v \in Nat \cup {Skip},
           NEW o \in Seeks(job, k, v), Sought(j, k, v, o)
    PROVE  /\ MayFail(j, k, v) /\ o \in Nat \cup {Skip}
           /\ o = v \/ (o = 0 /\ v > 0 /\ <<j, k>> \in faulted')
<1>1. o = v \/ (o = 0 /\ v > 0) BY DEF Seeks
<1>2. faulted' = IF o = v THEN faulted ELSE faulted \cup {<<j, k>>}
  BY DEF Sought
<1>3. v <= 0 => o = v BY <1>1 DEF Skip
<1> QED BY <1>1, <1>2, <1>3 DEF MayFail, Skip

\* The side that reads job j gets the answer v for file k it has waited for; it
\* may pass it on in x.
ReadDecided(j, k, v, x) ==
    /\ j \in Jobs /\ j \in DOMAIN rjob /\ up /\ sc.od /\ IsFile(j, k)
    /\ UNCHANGED <<sc, up, breaks, wjob, reads, disk, saved, state, from>>
    /\ v \in Nat \cup {Skip} /\ k \in Nat /\ MayFail(j, k, v)
    /\ WaitsFor(j, k) /\ Clear(Data(j), j) /\ ~Has(Data(j), j, {"digest"})
    /\ ~Has(Back(j)', j, {"ask", "confirm"}) /\ ~Shown(j)'
    /\ DOMAIN rjob' = DOMAIN rjob
    /\ \A i \in DOMAIN rjob : i # j => rjob'[i] = rjob[i]
    /\ rjob'[j] \in ReadJobs /\ SameRead(rjob[j], rjob'[j])
    /\ v = Skip => /\ rjob'[j].file_num = k + 1 /\ rjob'[j].pos = 0
                   /\ ~rjob'[j].confirmed /\ ~rjob'[j].waiting
    /\ v # Skip => /\ rjob'[j].file_num = k /\ rjob'[j].confirmed
                   /\ rjob'[j].waiting /\ ~rjob'[j].skipped
                   /\ \/ rjob'[j].pos = IF v > 0 THEN v + 1 ELSE 1
                      \/ rjob'[j].pos = 1 /\ <<j, k>> \in faulted'
    /\ \/ Data(j)' = Data(j)
       \/ /\ Gave(Data(j), Data(j)', j, x) /\ sc.upload[j]
          /\ x.t = "confirm" /\ x.k = k /\ x.v = v
    /\ Less(Back(j), Back(j)', j)
    /\ Has(Back(j), j, {"cancel"}) => Has(Back(j)', j, {"cancel"})
    /\ Has(Back(j), j, {"send"}) => Has(Back(j)', j, {"send"})
    /\ c2s' \in Seq(Messages) /\ s2c' \in Seq(Messages)
    /\ \A i : i # j => SameQueue(c2s, c2s', i) /\ SameQueue(s2c, s2c', i)
    /\ kept' \subseteq kept \cup {<<j, k>>}
    /\ kept \subseteq kept' \cup {<<j, k>>}
    /\ lost' \subseteq Jobs
    /\ \A i \in Jobs : i # j => (Shown(i)' => dialog' = dialog)
    /\ dialog' = None \/ dialog' = dialog

\* What is then known of the job, whatever was decided.
LEMMA ReadDecidedLife ==
    ASSUME Inv, NEW j, NEW k, NEW v, NEW x, ReadDecided(j, k, v, x),
           v > 0 /\ Data(j)' # Data(j) /\ Live(j) => disk[<<j, k>>].digest
    PROVE  /\ FTTypeOK' /\ Life(j)' /\ Tokens(j)' /\ Parts(j)'
           /\ \A i \in Jobs \ {j} : Frame(i)
           /\ Live(j)' <=> Live(j)
           /\ At(j)' = At(j) /\ (Open(j)' <=> Open(j))
           /\ Sent(Data(j), j) \subseteq Sent(Data(j)', j)
           /\ \A m \in Sent(Data(j)', j) :
                 m \in Sent(Data(j), j) \/ (m = x /\ Data(j)' # Data(j))
           /\ ~Has(Data(j)', j, {"digest"})
<1>1. /\ FTTypeOK /\ j \in Jobs /\ j \in DOMAIN rjob /\ up /\ sc' = sc
      /\ UNCHANGED <<sc, up, breaks, wjob, reads, disk, saved, state, from>>
      /\ faulted \subseteq faulted'
      /\ faulted' \subseteq faulted \cup {<<j, k>>}
      /\ c2s' \in Seq(Messages) /\ s2c' \in Seq(Messages)
      /\ Life(j) /\ Tokens(j) /\ Parts(j) /\ sc.upload[j] \in BOOLEAN
      /\ k \in DOMAIN sc.files[j] /\ k \in Nat /\ sc \in Scenarios
      /\ DOMAIN rjob' = DOMAIN rjob /\ Less(Back(j), Back(j)', j)
      /\ ~Has(Data(j), j, {"digest"})
  BY Scenario DEF Inv, ReadDecided, MayFail, IsFile, FTTypeOK, TypeUser
<1>2. /\ Sent(Data(j), j) \subseteq Sent(Data(j)', j)
      /\ \A m \in Sent(Data(j)', j) :
            \/ m \in Sent(Data(j), j)
            \/ /\ m = x /\ Data(j)' # Data(j) /\ sc.upload[j]
               /\ x.t = "confirm" /\ x.k = k /\ x.v = v
      /\ \A T : "confirm" \notin T /\ Leads(Data(j), j, T) => Leads(Data(j)', j, T)
      /\ \A T : "confirm" \notin T /\ Once(Data(j), j, T) => Once(Data(j)', j, T)
      /\ Trails(Data(j), j) => Trails(Data(j)', j)
      /\ OffsetFirst(Data(j), j) => OffsetFirst(Data(j)', j)
  <2>1. CASE Data(j)' = Data(j) BY <2>1
  <2>2. CASE /\ Gave(Data(j), Data(j)', j, x) /\ sc.upload[j] /\ Data(j)' # Data(j)
             /\ x.t = "confirm" /\ x.k = k /\ x.v = v
    BY <1>1, <2>2 DEF Gave, ReadDecided
  <2> QED BY <2>1, <2>2 DEF ReadDecided
<1>3. FTTypeOK'
  <2>1. TypeJobs' BY <1>1, JobsStep DEF FTTypeOK, TypeJobs, ReadDecided
  <2>2. TypeQueues'
    <3>1. x.t = "confirm" /\ x.k = k /\ x.v = v /\ sc.upload[j] => DataOK(j, x)
      BY DEF ReadDecided, DataOK
    <3> QED BY <1>1, <1>2, <3>1, QueuesStep DEF FTTypeOK, Less, ReadDecided
  <2>3. TypeUser'
    BY <1>1 DEF FTTypeOK, TypeUser, Jobs, Files, IsFile, Size, ReadDecided
  <2>4. TypeHistory'
    <3>1. <<j, k>> \in Files BY <1>1, Scenario
    <3>2. kept' \subseteq Files /\ lost' \subseteq Jobs /\ faulted' \subseteq Files
      BY <1>1, <3>1 DEF FTTypeOK, TypeHistory, ReadDecided, Inv
    <3>3. ASSUME NEW f \in kept' PROVE IsFile(f[1], f[2]) /\ sc.od
      <4>1. CASE f \in kept BY <1>1, <4>1 DEF FTTypeOK, TypeHistory
      <4>2. CASE f = <<j, k>> BY <4>2 DEF ReadDecided
      <4> QED BY <3>3, <4>1, <4>2 DEF ReadDecided
    <3> QED BY <1>1, <3>2, <3>3
            DEF FTTypeOK, TypeHistory, Files, Jobs, IsFile, Size
  <2> QED BY <1>1, <2>1, <2>2, <2>3, <2>4, FilesSame, ReadsSame DEF FTTypeOK
<1>4. ASSUME NEW i \in Jobs \ {j} PROVE Frame(i)
  <2>1. \A n : /\ <<i, n>> \in kept' <=> <<i, n>> \in kept
               /\ <<i, n>> \in faulted' <=> <<i, n>> \in faulted
    <3>1. \A n : <<i, n>> # <<j, k>> OBVIOUS
    <3> QED BY <1>1, <3>1 DEF ReadDecided
  <2> QED BY <1>1, <2>1 DEF Frame, ReadDecided
<1>5. /\ Sent(c2s, j) = {} => sc.upload[j] \/ Sent(c2s', j) = {}
      /\ Has(c2s', j, {"receive"}) <=> Has(c2s, j, {"receive"})
      /\ Has(c2s', j, {"send"}) <=> Has(c2s, j, {"send"})
      /\ Has(c2s', j, {"cancel"}) <=> Has(c2s, j, {"cancel"})
      /\ Has(Data(j)', j, {"done"}) <=> Has(Data(j), j, {"done"})
  <2>1. CASE sc.upload[j]
    <3>1. Data(j) = c2s /\ Data(j)' = c2s' BY <1>1, <2>1 DEF Data
    <3> QED BY <1>2, <2>1, <3>1 DEF Has
  <2>2. CASE ~sc.upload[j]
    <3>1. Data(j)' = Data(j) /\ Back(j) = c2s /\ Back(j)' = c2s'
      BY <1>1, <2>2 DEF Back, ReadDecided
    <3>2. ~Has(c2s, j, {"receive"})
      BY <1>1, <2>2, <3>1 DEF FTTypeOK, TypeQueues, BackOK, Has
    <3> QED BY <1>1, <3>1, <3>2 DEF Has, Less, ReadDecided
  <2> QED BY <1>1, <2>1, <2>2
<1>6. /\ Live(j)' <=> Live(j)
      /\ At(j)' = At(j) /\ (Open(j)' <=> Open(j))
  BY <1>1, <1>5 DEF Live, At, Open
<1>7. state[j] \notin {"new", "saved", "gone", "added"}
  <2>1. rjob[j].waiting BY DEF ReadDecided, WaitsFor
  <2>2. ~sc.upload[j] => state[j] # "added" BY <1>1 DEF Life, LifeIdle
  <2> QED BY <1>1, <2>1, <2>2 DEF Life, LifeIdle
<1>8. ~Has(c2s, j, {"send"}) BY <1>1 DEF Life, LifeStart, Has
<1>9. Life(j)'
  <2>1. LifeIdle(j)' BY <1>1, <1>7 DEF LifeIdle
  <2>2. LifeStart(j)'
    <3>1. CASE sc.upload[j]
      <4>1. /\ Data(j) = c2s /\ Data(j)' = c2s' /\ Back(j) = s2c
            /\ Back(j)' = s2c'
        BY <1>1, <3>1 DEF Data, Back
      <4>2. Leads(c2s', j, {"send", "receive"}) /\ Leads(s2c', j, {"dir"})
        BY <1>1, <1>2, <4>1 DEF Life, LifeStart, Less
      <4>3. j \in DOMAIN wjob => wjob[j].listed
        BY <1>1, <3>1 DEF Life, LifeStart
      <4> QED BY <1>1, <1>2, <1>5, <1>8, <4>1, <4>2, <4>3
              DEF Life, LifeStart, Has, Less, ReadDecided
    <3>2. CASE ~sc.upload[j]
      <4>1. /\ Data(j) = s2c /\ s2c' = s2c /\ Back(j) = c2s /\ Back(j)' = c2s'
        BY <1>1, <3>2 DEF Data, Back, ReadDecided
      <4>2. Leads(c2s', j, {"send", "receive"}) /\ Leads(s2c', j, {"dir"})
        BY <1>1, <4>1 DEF Life, LifeStart, Less
      <4>3. \A m \in Sent(c2s', j) : m.t \notin {"send", "receive"}
        <5>1. ~Has(c2s, j, {"receive"})
          BY <1>1, <3>2, <4>1 DEF FTTypeOK, TypeQueues, BackOK, Has
        <5> QED BY <1>1, <1>8, <4>1, <5>1 DEF Has, Less
      <4> QED BY <1>1, <3>2, <4>1, <4>2, <4>3 DEF Life, LifeStart
    <3> QED BY <1>1, <3>1, <3>2
  <2>3. LifeEnd(j)'
    <3>1. Once(Data(j)', j, {"done"}) BY <1>1, <1>2 DEF Life, LifeEnd
    <3>2. sc.upload[j] /\ Has(s2c', j, {"done"}) => Has(s2c, j, {"done"})
      BY <1>1 DEF Less, Back, Has
    <3> QED BY <1>1, <1>5, <1>6, <3>1, <3>2 DEF Life, LifeEnd
  <2> QED BY <2>1, <2>2, <2>3 DEF Life
<1>10. ~Has(Data(j)', j, {"digest"}) BY <1>1, <1>2 DEF Has
<1>11. Tokens(j)'
  <2>1. /\ Once(Data(j)', j, {"digest"}) /\ Trails(Data(j)', j)
        /\ Once(Back(j)', j, {"ask", "confirm"})
    BY <1>1, <1>2 DEF Tokens, Less
  <2>2. ~Go(j)' => rjob'[j].pos <= 1 BY <1>1 DEF Go, ReadDecided
  <2> QED BY <1>10, <2>1, <2>2 DEF Tokens, Has, ReadDecided
<1>12. Parts(j)'
  <2>1. \A m \in Sent(Back(j)', j) : m \in Sent(Back(j), j) BY <1>1 DEF Less
  <2>2. Open(j)' => /\ IsFile(j, wjob[j].on)
                    /\ IsFile(j, At(j)) /\ <<j, At(j)>> \notin faulted' =>
                          wjob[j].on = At(j) /\ disk[<<j, At(j)>>].part # None
    BY <1>1, <1>6 DEF Parts
  <2>3. \A m \in Sent(Back(j)', j) :
           m.t = "ask" /\ m.v > 0 => disk[<<j, m.k>>].digest
    BY <1>1, <2>1 DEF Parts
  <2>4. Live(j)' => \A m \in Sent(Data(j)', j) :
           m.t = "confirm" /\ m.v > 0 => disk[<<j, m.k>>].digest
    BY <1>1, <1>2, <1>6 DEF Parts
  <2>5. sc.od /\ <<j, rjob'[j].file_num>> \in sc.undated =>
           ~rjob'[j].confirmed /\ ~rjob'[j].waiting
    BY <1>1 DEF Parts, ReadDecided, WaitsFor
  <2>6. \A n \in DOMAIN sc.files[j] :
           disk[<<j, n>>].part # None =>
               disk[<<j, n>>].digest \/ <<j, n>> \in faulted'
    BY <1>1 DEF Parts
  <2>7. OffsetFirst(Data(j)', j) BY <1>1, <1>2 DEF Parts
  <2>8. (Open(j) => /\ IsFile(j, wjob[j].on)
                    /\ IsFile(j, At(j)) /\ <<j, At(j)>> \notin faulted =>
                          wjob[j].on = At(j) /\ disk[<<j, At(j)>>].part # None)'
    BY <1>1, <1>6, <2>2 DEF IsFile, Size
  <2>9. (\A n \in DOMAIN sc.files[j] :
            disk[<<j, n>>].part # None =>
                disk[<<j, n>>].digest \/ <<j, n>> \in faulted)'
    BY <1>1, <2>6
  <2> QED BY <1>1, <1>6, <2>3, <2>4, <2>5, <2>7, <2>8, <2>9 DEF Parts
<1> QED BY <1>2, <1>3, <1>4, <1>6, <1>9, <1>10, <1>11, <1>12

\* Such a decision keeps the invariant, if what was received is where it says.
LEMMA ReadDecidedStep ==
    ASSUME Inv, NEW j, NEW k, NEW v, NEW x, ReadDecided(j, k, v, x),
           v > 0 /\ Data(j)' # Data(j) /\ Live(j) => disk[<<j, k>>].digest,
           JobInv(j) =>
               /\ <<j, k>> \in kept' <=> v = Skip
               /\ v # Skip => kept' = kept
               /\ v = Skip /\ <<j, k>> \notin faulted =>
                     /\ Orig(<<j, k>>)
                     /\ Live(j) /\ k >= At(j) /\ (sc.upload[j] \/ breaks = 0)
                           => disk[<<j, k>>].part = None
               /\ v = Skip => ~Open(j) \/ (At(j) # k /\ wjob[j].on # k)
               /\ Live(j) /\ (v <= 0 \/ Data(j)' = Data(j)) => NoneOK(j)'
               /\ Live(j) /\ v > 0 /\ Data(j)' # Data(j) => StartOK(j, x)
    PROVE  Inv'
<1>1. /\ FTTypeOK /\ j \in Jobs /\ j \in DOMAIN rjob /\ up /\ sc' = sc
      /\ UNCHANGED <<sc, up, breaks, wjob, reads, disk, saved, state, from>>
      /\ faulted \subseteq faulted'
      /\ faulted' \subseteq faulted \cup {<<j, k>>}
      /\ v <= 0 => faulted' = faulted
      /\ k \in DOMAIN sc.files[j] /\ k \in Nat /\ sc \in Scenarios /\ v \in Int
      /\ DOMAIN rjob' = DOMAIN rjob /\ ~Has(Data(j), j, {"digest"})
      /\ WaitsFor(j, k) /\ Clear(Data(j), j) /\ sc.upload[j] \in BOOLEAN
      /\ ~Has(Back(j)', j, {"ask", "confirm"}) /\ ~Shown(j)'
      /\ SameRead(rjob[j], rjob'[j]) /\ v >= -1
      /\ v = Skip => /\ rjob'[j].file_num = k + 1 /\ rjob'[j].pos = 0
                     /\ ~rjob'[j].confirmed /\ ~rjob'[j].waiting
      /\ v # Skip => /\ rjob'[j].file_num = k /\ rjob'[j].confirmed
                     /\ rjob'[j].waiting /\ ~rjob'[j].skipped
                     /\ \/ rjob'[j].pos = IF v > 0 THEN v + 1 ELSE 1
                        \/ rjob'[j].pos = 1 /\ <<j, k>> \in faulted'
  BY Scenario DEF Inv, ReadDecided, MayFail, IsFile, FTTypeOK, TypeUser, Skip
<1>2. /\ FTTypeOK' /\ Life(j)' /\ Tokens(j)' /\ Parts(j)'
      /\ \A i \in Jobs \ {j} : Frame(i)
      /\ Live(j)' <=> Live(j)
      /\ At(j)' = At(j) /\ (Open(j)' <=> Open(j))
      /\ Sent(Data(j), j) \subseteq Sent(Data(j)', j)
      /\ \A m \in Sent(Data(j)', j) :
            m \in Sent(Data(j), j) \/ (m = x /\ Data(j)' # Data(j))
      /\ ~Has(Data(j)', j, {"digest"})
  BY ReadDecidedLife
<1>3. Data(j)' # Data(j) =>
         /\ Gave(Data(j), Data(j)', j, x) /\ sc.upload[j]
         /\ x.t = "confirm" /\ x.k = k /\ x.v = v
  BY DEF ReadDecided
<1>4. Data(j) \in Seq(Messages) BY <1>1 DEF FTTypeOK, TypeQueues, Data
<1>5. ASSUME NEW m \in Sent(Data(j), j), Item(m, j) PROVE FALSE
  BY <1>1, <1>5, <1>4, ClearNone
<1> SUFFICES ASSUME JobInv(j) PROVE JobInv(j)'
  <2>1. Sane' => Sane BY <1>1 DEF Sane
  <2> QED BY <1>1, <1>2, <2>1, OwnStep DEF Inv
<1>6. /\ kept \subseteq kept' /\ kept' \subseteq kept \cup {<<j, k>>}
      /\ <<j, k>> \in kept' <=> v = Skip
      /\ v # Skip => kept' = kept
      /\ v = Skip => ~Open(j) \/ (At(j) # k /\ wjob[j].on # k)
  <2>1. <<j, k>> \in kept' <=> v = Skip OBVIOUS
  <2>2. v # Skip => kept' = kept OBVIOUS
  <2>3. kept' \subseteq kept \cup {<<j, k>>} /\ kept \subseteq kept' \cup {<<j, k>>}
    BY DEF ReadDecided
  <2>4. v = Skip => ~Open(j) \/ (At(j) # k /\ wjob[j].on # k) OBVIOUS
  <2> QED BY <2>1, <2>2, <2>3, <2>4
<1>7. /\ \A n : Size(j, n)' = Size(j, n) /\ Whole(<<j, n>>)' = Whole(<<j, n>>)
      /\ \A n : Orig(<<j, n>>)' <=> Orig(<<j, n>>)
      /\ \A b : Untouched(j, b) => Untouched(j, b)'
  BY <1>1 DEF Size, Whole, Orig, Untouched
<1>8. /\ \A a, b : Gap(j, a, b) => Gap(j, a, b)'
      /\ \A n, b : Shadowed(j, n, b) => Shadowed(j, n, b)'
      /\ \A b : WholeBefore(j, b) => WholeBefore(j, b)'
  <2>1. \A a, b : Gap(j, a, b) => Gap(j, a, b)' BY <1>1, <1>6 DEF Gap
  <2>2. \A n, b : Shadowed(j, n, b) => Shadowed(j, n, b)'
    BY <1>1, <1>7, <2>1 DEF Shadowed
  <2>3. \A b : WholeBefore(j, b) => WholeBefore(j, b)'
    BY <1>1, <1>6, <1>7, <2>2 DEF WholeBefore
  <2> QED BY <2>1, <2>2, <2>3
<1>9. \A n \in DOMAIN sc.files[j] : n \in Nat BY <1>1, Scenario
<1>10. \A m \in Sent(Data(j), j) : m.t = "confirm" => m.k < k
  BY <1>1 DEF JobInv, Reached, WaitsFor
<1>11. /\ state[j] # "new"
       /\ ~Has(c2s, j, {"send"}) /\ ~Has(c2s', j, {"send"})
  <2>1. Life(j) BY <1>1 DEF Inv
  <2>2. state[j] # "new" BY <1>1, <2>1 DEF Life, LifeIdle
  <2> QED BY <1>1, <1>2, <2>1, <2>2 DEF Life, LifeStart, Has
<1>12. Touch(j)'
  <2>1. PICK b : b = rjob'[j].file_num OBVIOUS
  <2>2. ASSUME sc.upload[j] PROVE Untouched(j, b) /\ UnsentAt(j, b)'
    <3>1. Untouched(j, k) /\ UnsentAt(j, k)
      BY <1>1, <2>2 DEF JobInv, Touch, WaitsFor
    <3>2. CASE v = Skip
      <4>1. Untouched(j, k + 1) /\ UnsentAt(j, k + 1)
        BY <1>1, <3>1, UntouchedNext
      <4>2. \A n \in DOMAIN sc.files[j] : n >= k + 1 => <<j, n>> # <<j, k>>
        BY <1>1, <1>9
      <4> QED BY <1>1, <1>6, <1>7, <2>1, <3>2, <4>1, <4>2 DEF UnsentAt
    <3>3. CASE v # Skip BY <1>1, <1>6, <1>7, <2>1, <3>1, <3>3 DEF UnsentAt
    <3> QED BY <3>2, <3>3
  <2> QED BY <1>1, <1>2, <1>7, <1>8, <1>11, <2>1, <2>2 DEF JobInv, Touch
<1>13. Resumed(j)' BY <1>1, <1>2 DEF JobInv, Resumed, SameRead
<1>14. Torn(j)'
  <2>1. \A n : LaterFails(<<j, n>>) => LaterFails(<<j, n>>)'
    BY <1>1 DEF LaterFails
  <2> QED BY <1>1, <1>7, <2>1 DEF JobInv, Torn, IsPrefixOf
<1>15. Chain(j)'
  <2>1. CASE v > 0 /\ Data(j)' # Data(j)
    <3>1. SameDisk(j) BY <1>1, <1>6, <2>1 DEF SameDisk, Skip
    <3>2. SameFacts(j) BY <3>1, SameDiskFacts
    <3>3. Item(x, j) BY <1>3, <2>1 DEF Item, Gave
    <3>4. LastOK(j, x)' BY <1>1, <1>3, <2>1 DEF LastOK, Go, Skip
    <3>5. \A y : ~Closes(Data(j), j, y)
      BY <1>1, <1>4, OpensSent, ClearNone
    <3>6. Live(j) => StartOK(j, x) BY <2>1
    <3> QED BY <1>1, <1>2, <1>3, <2>1, <3>2, <3>3, <3>4, <3>5, <3>6, AppendChain
            DEF JobInv
  <2>2. CASE v <= 0 \/ Data(j)' = Data(j)
    <3>1. Clear(Data(j)', j) /\ Data(j)' \in Seq(Messages)
      <4>1. Data(j)' # Data(j) => ~Item(x, j) BY <1>1, <1>3, <2>2 DEF Item
      <4>2. Clear(Data(j)', j) BY <1>1, <1>3, <4>1 DEF Gave, SameItems
      <4> QED BY <4>2 DEF ReadDecided, Data
    <3>2. \A y : ~Opens(Data(j)', j, y) /\ ~Closes(Data(j)', j, y)
      BY <3>1, OpensSent, ClearNone
    <3>3. \A y, z : ~Follows(Data(j)', j, y, z)
      BY <3>1, OpensSent, ClearNone
    <3>4. Live(j) => NoneOK(j)' BY <2>2
    <3> QED BY <1>2, <3>2, <3>3, <3>4 DEF Chain
  <2> QED BY <1>1, <2>1, <2>2
<1>16. Reached(j)'
  <2>1. ASSUME NEW m \in Sent(Data(j)', j)
        PROVE  /\ m.t # "block"
               /\ m.t = "confirm" => \/ m.k < rjob'[j].file_num
                                     \/ /\ m.k = rjob'[j].file_num /\ m.v >= 0
                                        /\ rjob'[j].confirmed
                                        /\ rjob'[j].pos > 0
    <3>1. CASE m \in Sent(Data(j), j)
      <4>1. m.t # "block" BY <1>5, <3>1 DEF Item, Sent
      <4>2. m.k \in Nat BY <1>4, <3>1, InSent, MessageIs
      <4> QED BY <1>1, <1>10, <3>1, <4>1, <4>2
    <3>2. CASE m = x /\ Data(j)' # Data(j)
      BY <1>1, <1>3, <3>2 DEF Skip
    <3> QED BY <1>2, <3>1, <3>2
  <2>2. sc.upload[j] /\ Live(j) => At(j) <= rjob'[j].file_num
    <3>1. At(j) \in Int
      BY <1>1, WriteIs DEF At, FTTypeOK, TypeUser, TypeJobs
    <3> QED BY <1>1, <3>1 DEF JobInv, Reached, WaitsFor
  <2> QED BY <1>1, <1>2, <2>1, <2>2 DEF Reached
<1>17. Answers(j)' BY <1>1, <1>2 DEF Answers, Has
<1>18. Keeps(j)'
  <2>1. ASSUME NEW m \in Sent(Data(j)', j)
        PROVE  /\ m.t = "block" \/ (m.t = "confirm" /\ m.v >= 0)
                  => <<j, m.k>> \notin kept'
               /\ m.t = "confirm" /\ m.v = Skip => <<j, m.k>> \in kept'
    <3>1. CASE m \in Sent(Data(j), j)
      <4>1. m.t # "block" BY <1>5, <3>1 DEF Item, Sent
      <4>2. m.k \in Nat BY <1>4, <3>1, InSent, MessageIs
      <4>3. m.t = "confirm" => <<j, m.k>> # <<j, k>> BY <1>1, <1>10, <3>1, <4>2
      <4> QED BY <1>6, <3>1, <4>1, <4>3 DEF JobInv, Keeps
    <3>2. CASE m = x /\ Data(j)' # Data(j)
      BY <1>3, <1>6, <3>2 DEF Skip
    <3> QED BY <1>2, <3>1, <3>2
  <2>2. rjob'[j].confirmed => <<j, rjob'[j].file_num>> \notin kept'
    BY <1>1, <1>6
  <2>3. Open(j) => /\ <<j, At(j)>> \notin kept'
                   /\ <<j, wjob[j].on>> \notin kept' /\ wjob[j].on <= At(j)
    BY <1>6 DEF JobInv, Keeps
  <2>4. ASSUME NEW n \in DOMAIN sc.files[j], <<j, n>> \in kept' \ faulted'
        PROVE  /\ Orig(<<j, n>>)
               /\ Live(j) /\ n >= At(j) /\ (sc.upload[j] \/ breaks = 0)
                     => disk[<<j, n>>].part = None
    <3>1. CASE <<j, n>> \in kept BY <1>1, <2>4, <3>1 DEF JobInv, Keeps
    <3>2. CASE <<j, n>> \notin kept
      <4>1. n = k /\ v = Skip /\ <<j, k>> \notin faulted
        BY <1>1, <1>6, <2>4, <3>2
      <4> QED BY <2>4, <4>1
    <3> QED BY <3>1, <3>2
  <2>5. (Open(j) => /\ <<j, At(j)>> \notin kept
                    /\ <<j, wjob[j].on>> \notin kept /\ wjob[j].on <= At(j))'
    BY <1>1, <1>2, <2>3
  <2> QED BY <1>1, <1>2, <1>7, <2>1, <2>2, <2>4, <2>5 DEF Keeps
<1>19. Ending(j)'
  <2>1. CASE sc.upload[j]
    <3>1. Has(s2c', j, {"done"}) => Has(s2c, j, {"done"})
      BY <1>1, <2>1 DEF ReadDecided, Back, Less, Has
    <3>2. Has(c2s, j, {"cancel"}) => Has(c2s', j, {"cancel"})
      BY <1>1, <1>2, <2>1 DEF Data, Has
    <3> QED BY <1>1, <1>2, <1>8, <2>1, <3>1, <3>2
            DEF JobInv, Ending, Undated, AllWhole
  <2>2. CASE ~sc.upload[j]
    <3>1. s2c' = s2c BY <1>1, <1>3, <2>2 DEF Data
    <3>2. ~Undated(j) BY <1>1 DEF Inv, Parts, WaitsFor, Undated
    <3>3. rjob'[j].error = rjob[j].error BY <1>1 DEF SameRead
    <3> QED BY <1>1, <1>2, <1>8, <2>2, <3>1, <3>2, <3>3
            DEF JobInv, Ending, AllWhole
  <2> QED BY <1>1, <2>1, <2>2
<1>20. Leftover(j)'
  <2>1. SUFFICES ASSUME breaks = 0, faulted = {} PROVE Leftover(j)'
    <3>1. faulted' = {} => faulted = {} BY <1>1
    <3> QED BY <1>1, <3>1 DEF Leftover
  <2>2. /\ ~rjob[j].error /\ ~Has(Data(j), j, {"error"})
        /\ \A n \in DOMAIN sc.files[j] :
              disk[<<j, n>>].part # None =>
                  IF Live(j) THEN n = At(j) \/ Shadowed(j, n, At(j))
                  ELSE Shadowed(j, n, Len(sc.files[j]))
    BY <1>1, <2>1 DEF JobInv, Leftover
  <2>3. ~Has(Data(j)', j, {"error"}) BY <1>2, <1>3, <2>2 DEF Has
  <2>4. Len(sc.files[j]) = 1 => k = 1 BY <1>1, Scenario
  <2> QED BY <1>1, <1>2, <1>6, <1>8, <1>11, <2>2, <2>3, <2>4
          DEF Leftover, SameRead
<1> QED BY <1>12, <1>13, <1>14, <1>15, <1>16, <1>17, <1>18, <1>19, <1>20
        DEF JobInv

-----------------------------------------------------------------------------
(* A question to the user. *)

\* An answer to a side that does not read any more.
LEMMA NotAwaited ==
    ASSUME Inv, NEW j \in Jobs, NEW m, up,
           UNCHANGED <<sc, up, breaks, rjob, wjob, reads, disk, dialog, saved,
                       state,
                       from, kept, lost, faulted>>,
           Took(Back(j), Back(j)', j, m), Data(j)' = Data(j),
           m.t \in {"ask", "confirm"}, j \notin DOMAIN rjob,
           c2s' \in Seq(Messages), s2c' \in Seq(Messages),
           \A i : i # j => SameQueue(c2s, c2s', i) /\ SameQueue(s2c, s2c', i)
    PROVE  Inv'
<1>1. /\ FTTypeOK /\ sc' = sc /\ sc.upload[j] \in BOOLEAN
      /\ Life(j) /\ Tokens(j) /\ Parts(j) /\ (Sane => JobInv(j))
  BY Scenario DEF Inv, FTTypeOK, TypeUser
<1>2. /\ Less(Data(j), Data(j)', j) /\ Less(Back(j), Back(j)', j)
      /\ Less(c2s, c2s', j) /\ Less(s2c, s2c', j) /\ m \in Sent(Back(j), j)
      /\ \A T : "ask" \notin T /\ "confirm" \notin T =>
            (Has(Back(j)', j, T) <=> Has(Back(j), j, T))
  <2>1. /\ Less(Data(j), Data(j)', j) /\ Less(Back(j), Back(j)', j) BY LessIs
  <2>2. /\ Less(c2s, c2s', j) /\ Less(s2c, s2c', j) BY <1>1, <2>1 DEF Data, Back
  <2> QED BY <2>1, <2>2 DEF Took, Has
<1>3. state[j] \notin {"new", "saved", "gone", "added"}
  BY <1>1, <1>2 DEF Life, LifeIdle, Back
<1>4. FTTypeOK'
  <2>1. TypeJobs' BY <1>1, JobsStep DEF FTTypeOK, TypeJobs
  <2>2. TypeQueues' BY <1>1, <1>2, QueuesStep DEF FTTypeOK, Less
  <2> QED BY <1>1, <2>1, <2>2, UserSame, HistorySame, ReadsSame, FilesSame
          DEF FTTypeOK
<1>5. ASSUME NEW i \in Jobs \ {j} PROVE Frame(i) BY DEF Frame, Shown
<1>6. /\ Live(j)' <=> Live(j)
      /\ At(j)' = At(j) /\ (Open(j)' <=> Open(j)) /\ (Shown(j)' <=> Shown(j))
      /\ Has(c2s', j, {"send"}) => Has(c2s, j, {"send"})
      /\ Has(c2s', j, {"cancel"}) <=> Has(c2s, j, {"cancel"})
      /\ Has(s2c', j, {"done"}) <=> Has(s2c, j, {"done"})
      /\ Has(s2c', j, {"error"}) <=> Has(s2c, j, {"error"})
      /\ Has(s2c', j, {"dir"}) <=> Has(s2c, j, {"dir"})
  <2>1. \A T : "ask" \notin T /\ "confirm" \notin T =>
           /\ Has(c2s', j, T) <=> Has(c2s, j, T)
           /\ Has(s2c', j, T) <=> Has(s2c, j, T)
    BY <1>1, <1>2 DEF Data, Back
  <2> QED BY <2>1 DEF Live, At, Open, Shown
<1>7. Life(j)'
  <2>1. LifeIdle(j)' BY <1>3 DEF LifeIdle
  <2>2. LifeStart(j)' BY <1>1, <1>2, <1>6 DEF Life, LifeStart, Less
  <2>3. LifeEnd(j)'
    <3>1. Has(s2c', j, {"digest"}) => Has(s2c, j, {"digest"})
      BY <1>2 DEF Has, Less
    <3> QED BY <1>1, <1>2, <1>6, <3>1 DEF Life, LifeEnd, Less
  <2> QED BY <2>1, <2>2, <2>3 DEF Life
<1>8. Tokens(j)' BY DEF Tokens
<1>9. Parts(j)' BY <1>1, <1>6 DEF Parts, IsFile, Size
<1>10. ASSUME JobInv(j) PROVE JobInv(j)'
  <2>1. SameDisk(j) BY DEF SameDisk
  <2>2. SameFacts(j) BY <2>1, SameDiskFacts
  <2>3. Quiet(j)
    BY <1>1, <1>6, <2>1, SameRefl DEF Quiet, SameQueue
  <2>4. Answers(j)' BY DEF Answers
  <2>5. Ending(j)'
    BY <1>1, <1>6, <1>10, <2>2 DEF JobInv, Ending, Undated, AllWhole, SameFacts
  <2>6. Leftover(j)'
    BY <1>1, <1>6, <1>10, <2>2 DEF JobInv, Leftover, SameFacts
  <2> QED BY <1>10, <2>3, <2>4, <2>5, <2>6, QuietStep DEF JobInv
<1>11. Sane' => Sane BY DEF Sane
<1> QED BY <1>1, <1>4, <1>5, <1>7, <1>8, <1>9, <1>10, <1>11, OwnStep

\* The user is asked about file k of job j.
Asked(j, k) ==
    /\ j \in Jobs /\ j \in DOMAIN rjob /\ up /\ sc.od /\ IsFile(j, k)
    /\ k \in Nat
    /\ UNCHANGED <<sc, up, breaks, rjob, wjob, reads, disk, saved, state, from,
                   kept,
                   faulted>>
    /\ Ask(j, k)
    /\ \/ Data(j)' = Data(j) /\ \E m : Took(Back(j), Back(j)', j, m) /\ m.t = "ask"
       \/ Back(j)' = Back(j) /\ \E m : Took(Data(j), Data(j)', j, m) /\ m.t = "digest"
    /\ ~Has(Data(j)', j, {"digest"}) /\ ~Has(Back(j)', j, {"ask", "confirm"})
    /\ WaitsFor(j, k) /\ Clear(Data(j), j)
    /\ ~Has(c2s, j, {"send", "receive"})
    /\ state[j] \notin {"new", "saved", "gone", "added"}
    /\ j \in DOMAIN wjob => wjob[j].listed
    /\ c2s' \in Seq(Messages) /\ s2c' \in Seq(Messages)
    /\ \A i : i # j => SameQueue(c2s, c2s', i) /\ SameQueue(s2c, s2c', i)

\* The dialog is shown for a file the side that writes has not begun with.
LEMMA AskStep ==
    ASSUME Inv, NEW j, NEW k, Asked(j, k),
           JobInv(j) /\ Live(j) =>
               k > At(j) \/ (k = At(j) /\ ~Open(j) /\ Empty(j, k))
    PROVE  Inv'
<1>1. /\ FTTypeOK /\ sc' = sc /\ sc.upload[j] \in BOOLEAN /\ j \in Jobs
      /\ Life(j) /\ Tokens(j) /\ Parts(j) /\ (Sane => JobInv(j))
      /\ j \in DOMAIN rjob /\ up /\ sc.od /\ IsFile(j, k) /\ k \in Nat
      /\ UNCHANGED <<sc, up, breaks, rjob, wjob, reads, disk, saved, state,
                     from, kept, faulted>>
      /\ ~Has(Data(j)', j, {"digest"}) /\ ~Has(Back(j)', j, {"ask", "confirm"})
      /\ WaitsFor(j, k) /\ Clear(Data(j), j)
      /\ state[j] \notin {"new", "saved", "gone", "added"}
      /\ j \in DOMAIN wjob => wjob[j].listed
      /\ c2s' \in Seq(Messages) /\ s2c' \in Seq(Messages)
      /\ \A i : i # j => SameQueue(c2s, c2s', i) /\ SameQueue(s2c, s2c', i)
      /\ ~Has(c2s, j, {"send", "receive"}) /\ sc \in Scenarios
  BY Scenario DEF Inv, FTTypeOK, TypeUser, Asked
<1>2. /\ Less(Data(j), Data(j)', j) /\ Less(Back(j), Back(j)', j)
      /\ Less(c2s, c2s', j) /\ Less(s2c, s2c', j)
      /\ SameItems(Data(j), Data(j)', j)
      /\ \A T : "ask" \notin T /\ "digest" \notin T =>
            /\ Has(Back(j)', j, T) <=> Has(Back(j), j, T)
            /\ Has(Data(j)', j, T) <=> Has(Data(j), j, T)
  <2>1. /\ Less(Data(j), Data(j)', j) /\ Less(Back(j), Back(j)', j)
    BY LessIs DEF Asked
  <2>2. /\ Less(c2s, c2s', j) /\ Less(s2c, s2c', j) BY <1>1, <2>1 DEF Data, Back
  <2>3. SameItems(Data(j), Data(j)', j)
    BY SameRefl DEF Asked, Took, Item, SameQueue
  <2>4. \A T : "ask" \notin T /\ "digest" \notin T =>
           /\ Has(Back(j)', j, T) <=> Has(Back(j), j, T)
           /\ Has(Data(j)', j, T) <=> Has(Data(j), j, T)
    BY DEF Asked, Took, Has
  <2> QED BY <2>1, <2>2, <2>3, <2>4
<1>3. dialog' = <<j, k>> /\ dialog'[2] = k /\ lost' \subseteq Jobs
  <2>1. dialog # None => dialog[1] \in Jobs
    BY <1>1, FileIs DEF FTTypeOK, TypeUser
  <2> QED BY <1>1, <2>1 DEF Asked, Ask, FTTypeOK, TypeHistory
<1>4. FTTypeOK'
  <2>1. TypeJobs' BY <1>1, JobsStep DEF FTTypeOK, TypeJobs
  <2>2. TypeQueues' BY <1>1, <1>2, QueuesStep DEF FTTypeOK, Less
  <2>3. <<j, k>> \in Files BY <1>1, Scenario DEF IsFile
  <2>4. TypeUser'
    BY <1>1, <1>3, <2>3 DEF FTTypeOK, TypeUser, Jobs, Files, IsFile, Size
  <2>5. TypeHistory'
    BY <1>1, <1>3 DEF FTTypeOK, TypeHistory, Jobs, Files, IsFile, Size
  <2> QED BY <1>1, <2>1, <2>2, <2>4, <2>5, ReadsSame, FilesSame
          DEF FTTypeOK
<1>5. ASSUME NEW i \in Jobs \ {j} PROVE Frame(i)
  <2>1. ~Shown(i)' BY <1>3 DEF Shown
  <2> QED BY <1>1, <2>1 DEF Frame
<1>6. /\ Live(j)' <=> Live(j)
      /\ At(j)' = At(j) /\ (Open(j)' <=> Open(j))
      /\ ~Has(c2s', j, {"send", "receive"})
      /\ Has(c2s', j, {"cancel"}) <=> Has(c2s, j, {"cancel"})
      /\ Has(s2c', j, {"done"}) <=> Has(s2c, j, {"done"})
      /\ Has(s2c', j, {"error"}) <=> Has(s2c, j, {"error"})
  <2>1. \A T : "ask" \notin T /\ "digest" \notin T =>
           /\ Has(c2s', j, T) <=> Has(c2s, j, T)
           /\ Has(s2c', j, T) <=> Has(s2c, j, T)
    BY <1>1, <1>2 DEF Data, Back
  <2> QED BY <1>1, <2>1 DEF Live, At, Open
<1>7. Life(j)'
  <2>1. LifeIdle(j)' BY <1>1 DEF LifeIdle
  <2>2. LifeStart(j)'
    BY <1>1, <1>2, <1>6 DEF Life, LifeStart, Less, Has
  <2>3. LifeEnd(j)' BY <1>1, <1>2, <1>6 DEF Life, LifeEnd, Less
  <2> QED BY <2>1, <2>2, <2>3 DEF Life
<1>8. Clear(Data(j)', j) BY <1>1, <1>2 DEF SameItems
<1>9. Tokens(j)'
  BY <1>1, <1>2, <1>3, <1>8 DEF Tokens, Has, Less, Go, WaitsFor
<1>10. Parts(j)' BY <1>1, <1>2, <1>6 DEF Parts, Less, IsFile, Size
<1>11. ASSUME JobInv(j) PROVE JobInv(j)'
  <2>1. SameDisk(j) BY <1>1 DEF SameDisk
  <2>2. SameFacts(j) BY <2>1, SameDiskFacts
  <2>3. Quiet(j)
    <3>1. Has(Back(j), j, {"confirm"}) => Has(Back(j)', j, {"confirm"}) BY <1>2
    <3> QED BY <1>1, <1>2, <1>6, <2>1, <3>1 DEF Quiet, Less
  <2>4. Answers(j)'
    BY <1>1, <1>3, <1>6, <1>11, <2>2 DEF Answers, Has, ShownOK, SameFacts
  <2>5. Ending(j)'
    BY <1>1, <1>6, <1>11, <2>2 DEF JobInv, Ending, Undated, AllWhole, SameFacts
  <2>6. Leftover(j)'
    <3>1. Has(Data(j)', j, {"error"}) => Has(Data(j), j, {"error"}) BY <1>2
    <3>2. ~Has(c2s', j, {"send"}) BY <1>6 DEF Has
    <3> QED BY <1>1, <1>6, <1>8, <1>11, <2>2, <3>1, <3>2
            DEF JobInv, Leftover, SameFacts
  <2> QED BY <1>11, <2>3, <2>4, <2>5, <2>6, QuietStep DEF JobInv
<1>12. Sane' => Sane BY <1>1 DEF Sane
<1> QED BY <1>1, <1>4, <1>5, <1>7, <1>9, <1>10, <1>11, <1>12, OwnStep

\* The client, or its user, decides about a file of an upload.
LEMMA UploadDecided ==
    ASSUME Inv, NEW j, NEW k, NEW v, NEW x, ReadDecided(j, k, v, x),
           sc.upload[j],
           Decide(j, k, v), ~Has(Back(j), j, {"confirm"}),
           v > 0 => Data(j)' # Data(j) /\ disk[<<j, k>>].digest,
           JobInv(j) /\ Live(j) =>
               \/ k > At(j) /\ v <= 0
               \/ /\ k = At(j) /\ ~Open(j)
                  /\ IF v > 0 THEN Holds(j, k, v) ELSE Empty(j, k)
    PROVE  Inv'
<1>1. /\ FTTypeOK /\ j \in Jobs /\ j \in DOMAIN rjob /\ sc' = sc /\ v \in Int
      /\ UNCHANGED <<sc, up, breaks, wjob, reads, disk, saved, state, from>>
      /\ v <= 0 => faulted' = faulted
      /\ k \in DOMAIN sc.files[j] /\ k \in Nat /\ sc \in Scenarios /\ sc.od
      /\ WaitsFor(j, k) /\ Clear(Data(j), j) /\ v >= -1
      /\ v = Skip => /\ rjob'[j].file_num = k + 1 /\ rjob'[j].pos = 0
                     /\ ~rjob'[j].confirmed /\ ~rjob'[j].waiting
      /\ v # Skip => /\ rjob'[j].file_num = k /\ rjob'[j].confirmed
                     /\ rjob'[j].waiting /\ ~rjob'[j].skipped
                     /\ v <= 0 => rjob'[j].pos = 1
      /\ Data(j)' # Data(j) => x.t = "confirm" /\ x.k = k /\ x.v = v
  BY DEF Inv, ReadDecided, MayFail, IsFile, FTTypeOK, TypeUser, Skip
<1>2. /\ Live(j)' <=> Live(j)
      /\ At(j)' = At(j) /\ (Open(j)' <=> Open(j))
  BY ReadDecidedLife
<1>3. At(j) \in Int BY <1>1, WriteIs DEF At, FTTypeOK, TypeUser, TypeJobs
<1>4. Open(j) => Live(j) BY DEF Open, Live
<1> SUFFICES ASSUME JobInv(j)
             PROVE  /\ <<j, k>> \in kept' <=> v = Skip
                    /\ v # Skip => kept' = kept
                    /\ v = Skip /\ <<j, k>> \notin faulted =>
                          /\ Orig(<<j, k>>)
                          /\ Live(j) /\ k >= At(j) /\ (sc.upload[j] \/ breaks = 0)
                                => disk[<<j, k>>].part = None
                    /\ v = Skip => ~Open(j) \/ (At(j) # k /\ wjob[j].on # k)
                    /\ Live(j) /\ (v <= 0 \/ Data(j)' = Data(j)) => NoneOK(j)'
                    /\ Live(j) /\ v > 0 /\ Data(j)' # Data(j) => StartOK(j, x)
  BY ReadDecidedStep
<1>5. Untouched(j, k) /\ UnsentAt(j, k) BY <1>1 DEF JobInv, Touch, WaitsFor
<1>6. <<j, k>> \notin kept BY <1>1, <1>5 DEF UnsentAt
<1>7. /\ <<j, k>> \in kept' <=> v = Skip
      /\ v # Skip => kept' = kept
      /\ kept \subseteq kept' /\ kept' \subseteq kept \cup {<<j, k>>}
  BY <1>6 DEF Decide
<1>8. Live(j) => \/ k > At(j) /\ v <= 0
                 \/ /\ k = At(j) /\ ~Open(j)
                    /\ IF v > 0 THEN Holds(j, k, v) ELSE Empty(j, k)
  OBVIOUS
<1>9. Orig(<<j, k>>) \/ <<j, k>> \in faulted BY <1>1, <1>5 DEF Untouched
<1>10. ASSUME Live(j), v <= 0, k >= At(j), <<j, k>> \notin faulted
       PROVE  disk[<<j, k>>].part = None
  <2>1. CASE k > At(j) BY <1>1, <1>10, <2>1 DEF JobInv, Touch, Untouched
  <2>2. CASE k = At(j) /\ Empty(j, k)
    <3>1. disk[<<j, k>>].part = None \/ disk[<<j, k>>].part = <<>>
      BY <1>1, <1>10, <2>2 DEF Empty
    <3>2. disk[<<j, k>>].part # None /\ disk[<<j, k>>].part = <<>> => Size(j, k) = 0
      BY <1>1, <1>10 DEF JobInv, Torn
    <3> QED BY <1>1, <1>5, <1>10, <3>1, <3>2 DEF UnsentAt
  <2> QED BY <1>1, <1>3, <1>8, <1>10, <2>1, <2>2
<1>11. v = Skip => ~Open(j) \/ (At(j) # k /\ wjob[j].on # k)
  <2>1. ASSUME v = Skip, Open(j) PROVE k > At(j) /\ wjob[j].on <= At(j)
    BY <1>4, <1>8, <2>1 DEF JobInv, Keeps
  <2>2. Open(j) => wjob[j].on \in Int
    BY <1>1, WriteIs DEF Open, FTTypeOK, TypeJobs
  <2> QED BY <1>1, <1>3, <2>1, <2>2
<1>12. ASSUME Live(j), v > 0, Data(j)' # Data(j) PROVE StartOK(j, x)
  BY <1>1, <1>8, <1>12 DEF StartOK
<1>13. ASSUME Live(j), v <= 0 PROVE NoneOK(j)'
  <2>1. NoneOK(j) BY <1>1, <1>13 DEF JobInv, Chain
  <2>2. ~Go(j) /\ rjob[j].pos = 1 /\ rjob[j].file_num = k
    BY <1>1 DEF Go, WaitsFor
  <2>3. ASSUME k > At(j) PROVE Passed(j, At(j))' /\ Gap(j, At(j), k)'
    <3>1. Passed(j, At(j)) /\ Gap(j, At(j), k)
      BY <1>3, <2>1, <2>2, <2>3 DEF NoneOK
    <3>2. <<j, At(j)>> # <<j, k>> BY <1>1, <1>3, <2>3
    <3>3. Gap(j, At(j), k)' BY <1>1, <1>2, <1>7, <1>13, <3>1 DEF Gap
    <3>4. <<j, At(j)>> \in kept' <=> <<j, At(j)>> \in kept BY <1>7, <3>2
    <3>5. Passed(j, At(j))' BY <1>1, <1>2, <1>13, <3>1, <3>4 DEF Passed, Size
    <3> QED BY <3>3, <3>5
  <2>4. CASE v = Skip
    <3>1. Skip # 0 /\ <<j, k>> \in kept' BY <1>7, <2>4 DEF Skip
    <3>2. CASE k > At(j)
      <4>1. Gap(j, At(j), k + 1)'
        <5>1. \A n \in DOMAIN sc.files[j] : n \in Nat BY <1>1, Scenario
        <5>2. ASSUME NEW n \in DOMAIN sc.files[j], At(j) < n, n < k + 1
              PROVE  <<j, n>> \in kept' \cup faulted
          BY <1>1, <1>2, <1>3, <1>13, <2>3, <3>1, <3>2, <5>1, <5>2 DEF Gap
        <5> QED BY <1>1, <1>2, <1>13, <5>2 DEF Gap
      <4> QED BY <1>1, <1>2, <1>3, <2>3, <2>4, <3>2, <4>1 DEF NoneOK
    <3>3. CASE k = At(j)
      <4>1. Passed(j, k)'
        BY <1>1, <1>3, <1>10, <1>13, <3>1, <3>3 DEF Passed, Size
      <4>2. Gap(j, k, k + 1)'
        BY <1>1, Scenario DEF Gap
      <4> QED BY <1>1, <1>2, <1>3, <2>4, <3>3, <4>1, <4>2 DEF NoneOK
    <3> QED BY <1>8, <1>13, <3>2, <3>3
  <2>5. CASE v # Skip
    <3>1. CASE k > At(j) BY <1>1, <1>2, <1>3, <1>13, <2>3, <2>5, <3>1 DEF NoneOK
    <3>2. CASE k = At(j) /\ ~Open(j) /\ Empty(j, k)
      <4>1. Blank(j, k)' BY <1>1, <1>6, <1>7, <1>13, <2>5, <3>2 DEF Blank, Empty
      <4> QED BY <1>1, <1>2, <1>13, <2>5, <3>2, <4>1 DEF NoneOK
    <3> QED BY <1>1, <1>8, <1>13, <3>1, <3>2
  <2> QED BY <2>4, <2>5
<1> QED BY <1>1, <1>7, <1>9, <1>10, <1>11, <1>12, <1>13 DEF Skip

\* FileResponse::Digest with is_upload.
LEMMA OnAskStep ==
    ASSUME Inv, OnAsk
    PROVE  Inv'
<1>1. /\ FTTypeOK /\ s2c # <<>> /\ Head(s2c).t = "ask"
      /\ UNCHANGED <<sc, up, breaks, wjob, reads, disk, saved, state, from>>
  BY DEF Inv, OnAsk, ClientGets
<1>2. ASSUME NEW msgs, NEW m, NEW j, ClientTook(m, j, msgs), m.t = "ask"
      PROVE  /\ j \in Jobs /\ m \in Sent(s2c, j) /\ up /\ m \in Messages
             /\ Took(s2c, s2c', j, m) /\ m.j = j /\ sc.upload[j] /\ sc' = sc
             /\ \A i : i # j => SameQueue(c2s, c2s', i) /\ SameQueue(s2c, s2c', i)
             /\ c2s' \in Seq(Messages) /\ s2c' \in Seq(Messages)
             /\ msgs = <<>> => c2s' = c2s
             /\ Data(j) = c2s /\ Data(j)' = c2s' /\ Back(j) = s2c
             /\ Back(j)' = s2c'
             /\ Life(j) /\ Tokens(j) /\ Parts(j)
             /\ m.k \in Nat /\ IsFile(j, m.k) /\ sc.od /\ m.v \in Nat
             /\ ~Has(c2s, j, {"send", "receive"})
             /\ state[j] \notin {"new", "saved", "gone", "added"}
             /\ j \in DOMAIN wjob => wjob[j].listed
  <2>1. /\ j \in Jobs /\ m \in Sent(s2c, j) /\ up /\ m \in Messages
        /\ Took(s2c, s2c', j, m) /\ m.j = j /\ sc.upload[j] /\ sc' = sc
        /\ \A i : i # j => SameQueue(c2s, c2s', i) /\ SameQueue(s2c, s2c', i)
        /\ c2s' \in Seq(Messages) /\ s2c' \in Seq(Messages)
        /\ msgs = <<>> => c2s' = c2s
        /\ BackOK(j, m)
    BY <1>1, <1>2 DEF ClientTook, DataOK
  <2>2. Data(j) = c2s /\ Data(j)' = c2s' /\ Back(j) = s2c /\ Back(j)' = s2c'
    BY <2>1 DEF Data, Back
  <2>3. Life(j) /\ Tokens(j) /\ Parts(j) BY <2>1 DEF Inv
  <2>4. ~Has(c2s, j, {"send", "receive"})
    BY <2>1, <2>3 DEF Life, LifeStart, Has
  <2>5. state[j] \notin {"new", "saved", "gone", "added"}
    BY <2>1, <2>3 DEF Life, LifeIdle
  <2>6. j \in DOMAIN wjob => wjob[j].listed BY <2>1, <2>3 DEF Life, LifeStart
  <2>7. m.k \in Nat /\ IsFile(j, m.k) /\ sc.od /\ m.v \in Nat
    BY <1>2, <2>1, MessageIs DEF BackOK
  <2> QED BY <2>1, <2>2, <2>3, <2>4, <2>5, <2>6, <2>7
<1>3. ASSUME NEW msgs, NEW m, NEW j, ClientTook(m, j, msgs), m.t = "ask",
             j \in DOMAIN rjob
      PROVE  /\ WaitsFor(j, m.k) /\ Clear(c2s, j) /\ ~Has(c2s, j, {"digest"})
             /\ ~Has(s2c', j, {"ask", "confirm"}) /\ ~Shown(j)
             /\ ~Has(s2c, j, {"confirm"})
             /\ m.v > 0 => disk[<<j, m.k>>].digest
             /\ JobInv(j) /\ Live(j) => AskOK(j, m)
  <2>1. /\ Tokens(j) /\ Parts(j) /\ Data(j) = c2s /\ Back(j) = s2c
        /\ m \in Sent(s2c, j) /\ Took(s2c, s2c', j, m)
    BY <1>2, <1>3
  <2>2. /\ WaitsFor(j, m.k) /\ Clear(c2s, j) /\ ~Has(c2s, j, {"digest"})
        /\ ~Has(s2c', j, {"ask", "confirm"}) /\ ~Shown(j)
    BY <1>3, <2>1 DEF Tokens, Has, Took
  <2>3. ~Has(s2c, j, {"confirm"}) BY <1>3, <2>1, <2>2 DEF Has, Took
  <2>4. m.v > 0 => disk[<<j, m.k>>].digest BY <1>3, <2>1 DEF Parts
  <2>5. JobInv(j) /\ Live(j) => AskOK(j, m) BY <1>3, <2>1 DEF JobInv, Answers
  <2> QED BY <2>2, <2>3, <2>4, <2>5
<1>4. CASE /\ Head(s2c).j \notin DOMAIN rjob /\ ClientTakes(<<>>)
           /\ UNCHANGED <<rjob, dialog, kept, lost, faulted>>
  <2>1. PICK m, j : ClientTook(m, j, <<>>) /\ m.t = "ask" /\ j \notin DOMAIN rjob
    BY <1>1, <1>4, ClientTake
  <2> QED BY <1>1, <1>2, <1>4, <2>1, NotAwaited
<1>5. CASE /\ Head(s2c).j \in DOMAIN rjob /\ ClientTakes(<<>>)
           /\ Ask(Head(s2c).j, Head(s2c).k) /\ UNCHANGED <<rjob, kept, faulted>>
           /\ ~(rjob[Head(s2c).j].resume /\ Head(s2c).v > 0)
  <2>1. PICK m, j : /\ ClientTook(m, j, <<>>) /\ m.t = "ask"
                    /\ j \in DOMAIN rjob
                    /\ Ask(j, m.k) /\ ~(rjob[j].resume /\ m.v > 0)
    BY <1>1, <1>5, ClientTake
  <2>2. Asked(j, m.k) BY <1>1, <1>2, <1>3, <1>5, <2>1 DEF Asked
  <2>3. ASSUME JobInv(j), Live(j)
        PROVE  m.k > At(j) \/ (m.k = At(j) /\ ~Open(j) /\ Empty(j, m.k))
    <3>1. AskOK(j, m) /\ m.v \in Nat BY <1>2, <1>3, <2>1, <2>3
    <3> QED BY <2>1, <3>1 DEF AskOK, Blank
  <2> QED BY <2>2, <2>3, AskStep
<1>6. ASSUME NEW v, NEW o, Head(s2c).j \in DOMAIN rjob,
             v = IF rjob[Head(s2c).j].resume /\ Head(s2c).v > 0 THEN Head(s2c).v
                 ELSE rjob[Head(s2c).j].strategy,
             v # Unset, o \in Seeks(rjob[Head(s2c).j], Head(s2c).k, v),
             Sought(Head(s2c).j, Head(s2c).k, v, o),
             rjob' = [rjob EXCEPT ![Head(s2c).j] = ConfirmRead(@, Head(s2c).k, o)],
             ClientTakes(<<Msg("confirm", Head(s2c).j, Head(s2c).k, v)>>),
             Decide(Head(s2c).j, Head(s2c).k, v), UNCHANGED <<dialog, lost>>
      PROVE  Inv'
  <2>1. Head(s2c).k \in Nat /\ Head(s2c).v \in Int
    BY <1>1, HeadIs DEF FTTypeOK, TypeQueues
  <2>2. rjob[Head(s2c).j].strategy \in {0, Skip, Unset}
    BY <1>1, <1>6, ReadIs DEF FTTypeOK, TypeJobs
  <2>3. v \in Nat \cup {Skip} /\ v \in Int
    BY <1>6, <2>1, <2>2 DEF Skip
  <2>4. PICK x : /\ ClientTook(Head(s2c), Head(s2c).j, <<x>>)
                 /\ x.t = "confirm" /\ x.k = Head(s2c).k /\ x.v = v
                 /\ Gave(c2s, c2s', Head(s2c).j, x)
    <3>1. "confirm" \in Kinds BY DEF Kinds
    <3>2. ClientTakes(<<Msg("confirm", Head(s2c).j, Head(s2c).k, v)>>) BY <1>6
    <3> HIDE <1>6
    <3>3. ClientReplied("confirm", Head(s2c).k, v)
      BY <1>1, <2>1, <2>3, <3>1, <3>2, ClientSends
    <3> QED BY <3>3 DEF ClientReplied
  <2>5. PICK m, j : /\ ClientTook(m, j, <<x>>) /\ m.t = "ask"
                    /\ j \in DOMAIN rjob
                    /\ x.t = "confirm" /\ x.k = m.k /\ x.v = v
                    /\ Gave(c2s, c2s', j, x)
                    /\ rjob' = [rjob EXCEPT ![j] = ConfirmRead(@, m.k, o)]
                    /\ Decide(j, m.k, v) /\ o \in Seeks(rjob[j], m.k, v)
                    /\ Sought(j, m.k, v, o)
                    /\ v = IF rjob[j].resume /\ m.v > 0 THEN m.v
                           ELSE rjob[j].strategy
    BY <1>1, <1>6, <2>4
  <2>6. /\ j \in Jobs /\ sc.upload[j] /\ sc' = sc /\ up
        /\ Data(j) = c2s /\ Data(j)' = c2s' /\ Back(j) = s2c /\ Back(j)' = s2c'
        /\ Took(s2c, s2c', j, m) /\ c2s' \in Seq(Messages)
        /\ s2c' \in Seq(Messages)
        /\ \A i : i # j => SameQueue(c2s, c2s', i) /\ SameQueue(s2c, s2c', i)
        /\ m.k \in Nat /\ IsFile(j, m.k) /\ sc.od /\ m.v \in Nat
        /\ WaitsFor(j, m.k) /\ Clear(c2s, j) /\ ~Has(c2s, j, {"digest"})
        /\ ~Has(s2c', j, {"ask", "confirm"}) /\ ~Shown(j)
        /\ ~Has(s2c, j, {"confirm"})
    BY <1>2, <1>3, <2>5
  <2>7. /\ DOMAIN rjob' = DOMAIN rjob
        /\ \A i \in DOMAIN rjob : i # j => rjob'[i] = rjob[i]
        /\ rjob'[j] = ConfirmRead(rjob[j], m.k, o)
    BY <2>5
  <2>8. /\ MayFail(j, m.k, v) /\ o \in Nat \cup {Skip}
        /\ o = v \/ (o = 0 /\ v > 0 /\ <<j, m.k>> \in faulted')
    BY <2>3, <2>5, SoughtIs
  <2>9. /\ rjob'[j] \in ReadJobs /\ SameRead(rjob[j], rjob'[j])
        /\ v = Skip => /\ rjob'[j].file_num = m.k + 1 /\ rjob'[j].pos = 0
                       /\ ~rjob'[j].confirmed /\ ~rjob'[j].waiting
        /\ v # Skip => /\ rjob'[j].file_num = m.k /\ rjob'[j].confirmed
                       /\ rjob'[j].waiting /\ ~rjob'[j].skipped
                       /\ \/ rjob'[j].pos = IF v > 0 THEN v + 1 ELSE 1
                          \/ rjob'[j].pos = 1 /\ <<j, m.k>> \in faulted'
    <3>1. rjob[j] \in ReadJobs BY <1>1, <2>5 DEF FTTypeOK, TypeJobs
    <3>2. LET s == ConfirmRead(rjob[j], m.k, o) IN
          /\ s \in ReadJobs /\ SameRead(rjob[j], s)
          /\ s.strategy = rjob[j].strategy
          /\ rjob[j].file_num # m.k => s = rjob[j]
          /\ rjob[j].file_num = m.k /\ o = Skip =>
                /\ s.file_num = m.k + 1 /\ s.pos = 0 /\ ~s.confirmed
                /\ ~s.waiting
                /\ s.skipped
          /\ rjob[j].file_num = m.k /\ o # Skip =>
                /\ s.file_num = m.k
                /\ s.pos = (IF o > 0 THEN o + 1 ELSE rjob[j].pos)
                /\ s.confirmed /\ s.waiting = rjob[j].waiting /\ ~s.skipped
      <4>1. m.k \in Nat /\ o \in Nat \cup {Skip} BY <2>6, <2>8
      <4>2. ReadAfter(rjob[j], m.k, o, ConfirmRead(rjob[j], m.k, o))
        BY <3>1, <4>1, ConfirmReadIs
      <4> QED BY <4>2 DEF ReadAfter
    <3>3. /\ rjob[j].file_num = m.k /\ rjob[j].pos = 1 /\ rjob[j].waiting
          /\ rjob'[j] = ConfirmRead(rjob[j], m.k, o)
      BY <2>6, <2>7 DEF WaitsFor
    <3> HIDE DEF ConfirmRead
    <3>4. CASE o = v BY <2>3, <3>2, <3>3, <3>4
    <3>5. CASE o = 0 /\ v > 0 /\ <<j, m.k>> \in faulted'
      <4>1. o # Skip /\ v # Skip /\ ~(o > 0) BY <2>3, <3>5 DEF Skip
      <4>2. rjob'[j].pos = rjob[j].pos BY <3>2, <3>3, <4>1
      <4> QED BY <3>2, <3>3, <3>5, <4>1, <4>2
    <3> QED BY <2>8, <3>4, <3>5
  <2>10. ReadDecided(j, m.k, v, x)
    <3>1. Less(s2c, s2c', j) BY <2>6, LessIs
    <3>2. /\ Has(s2c, j, {"cancel"}) => Has(s2c', j, {"cancel"})
          /\ Has(s2c, j, {"send"}) => Has(s2c', j, {"send"})
      BY <2>5, <2>6 DEF Has, Took
    <3>3. /\ kept' \subseteq kept \cup {<<j, m.k>>}
          /\ kept \subseteq kept' \cup {<<j, m.k>>}
      BY <2>5 DEF Decide
    <3>4. lost' \subseteq Jobs BY <1>1, <1>6 DEF FTTypeOK, TypeHistory
    <3>5. ~Shown(j)' BY <1>6, <2>6 DEF Shown
    <3> QED BY <1>1, <1>6, <2>3, <2>5, <2>6, <2>7, <2>9, <2>8, <3>1, <3>2,
               <3>3, <3>4,
               <3>5 DEF ReadDecided
  <2>11. v > 0 => v = m.v /\ rjob[j].resume
    BY <1>1, <2>5, <2>2, ReadIs DEF Skip, Unset, FTTypeOK, TypeJobs
  <2>12. v > 0 => Data(j)' # Data(j) /\ disk[<<j, m.k>>].digest
    <3>1. ASSUME v > 0 PROVE ~Clear(c2s', j)
      BY <2>5, <3>1 DEF Gave, Item
    <3> QED BY <1>3, <2>5, <2>6, <2>11, <3>1
  <2>13. ASSUME JobInv(j), Live(j)
         PROVE  \/ m.k > At(j) /\ v <= 0
                \/ /\ m.k = At(j) /\ ~Open(j)
                   /\ IF v > 0 THEN Holds(j, m.k, v) ELSE Empty(j, m.k)
    <3>1. AskOK(j, m) BY <1>3, <2>5, <2>13
    <3>2. ~(v > 0) => v <= 0 BY <2>3
    <3>3. ~(v > 0) => ~(rjob[j].resume /\ m.v > 0) BY <2>5
    <3> QED BY <2>6, <2>11, <3>1, <3>2, <3>3 DEF AskOK, Blank
  <2> QED BY <2>5, <2>6, <2>10, <2>12, <2>13, UploadDecided
<1>7. Head(s2c).v > 0 => Head(s2c).v # Unset
  BY <1>1, HeadIs DEF Unset, FTTypeOK, TypeQueues
<1> QED BY <1>4, <1>5, <1>6, <1>7 DEF OnAsk

-----------------------------------------------------------------------------
(* A decision about a file of a download. *)

\* The client, or its user, decides about file k of a download, and sends x.
WriteDecided(j, k, v, x) ==
    /\ j \in Jobs /\ j \in DOMAIN rjob /\ up /\ sc.od /\ IsFile(j, k)
    /\ k \in Nat
    /\ ~sc.upload[j] /\ j \in DOMAIN wjob
    /\ UNCHANGED <<sc, up, breaks, rjob, reads, disk, saved, state, from>>
    /\ v \in Nat \cup {Skip} /\ MayFail(j, k, v)
    /\ WaitsFor(j, k) /\ Clear(s2c, j) /\ ~Has(c2s, j, {"ask", "confirm"})
    /\ ~Has(s2c', j, {"digest"}) /\ ~Shown(j)'
    /\ DOMAIN wjob' = DOMAIN wjob
    /\ \A i \in DOMAIN wjob : i # j => wjob'[i] = wjob[i]
    /\ wjob'[j] \in WriteJobs /\ wjob'[j].resume = wjob[j].resume
    /\ wjob'[j].listed = wjob[j].listed /\ (v > 0 => wjob[j].listed)
    /\ wjob[j].file_num # k => /\ wjob'[j].file_num = wjob[j].file_num
                               /\ wjob'[j].open = wjob[j].open
                               /\ wjob'[j].on = wjob[j].on
    /\ wjob[j].file_num = k /\ v = Skip =>
          wjob'[j].file_num = k + 1 /\ ~wjob'[j].open
    /\ wjob[j].file_num = k /\ v # Skip =>
          /\ wjob'[j].file_num = k
          /\ \/ v > 0 /\ wjob'[j].open /\ wjob'[j].on = k
             \/ /\ v <= 0 \/ <<j, k>> \in faulted'
                /\ wjob'[j].open = wjob[j].open /\ wjob'[j].on = wjob[j].on
    /\ Gave(c2s, c2s', j, x) /\ x.t = "confirm" /\ x.k = k /\ x.v = v
    /\ Less(s2c, s2c', j) /\ SameItems(s2c, s2c', j)
    /\ \A T : "digest" \notin T => (Has(s2c', j, T) <=> Has(s2c, j, T))
    /\ c2s' \in Seq(Messages) /\ s2c' \in Seq(Messages)
    /\ \A i : i # j => SameQueue(c2s, c2s', i) /\ SameQueue(s2c, s2c', i)
    /\ Decide(j, k, v) /\ lost' \subseteq Jobs
    /\ \A i \in Jobs : i # j => (Shown(i)' => dialog' = dialog)
    /\ dialog' = None \/ dialog' = dialog
    /\ ~Has(c2s, j, {"send", "receive"})
    /\ state[j] \notin {"new", "saved", "gone", "added"}

\* What is then known of the job, whatever was decided.
LEMMA WriteDecidedLife ==
    ASSUME Inv, NEW j, NEW k, NEW v, NEW x, WriteDecided(j, k, v, x),
           v > 0 => disk[<<j, k>>].digest
    PROVE  /\ FTTypeOK' /\ Life(j)' /\ Tokens(j)' /\ Parts(j)'
           /\ \A i \in Jobs \ {j} : Frame(i)
           /\ Live(j)' /\ Live(j)
           /\ At(j) = wjob[j].file_num /\ At(j)' = wjob'[j].file_num
           /\ Open(j) = wjob[j].open /\ Open(j)' = wjob'[j].open
           /\ Data(j) = s2c /\ Data(j)' = s2c' /\ Back(j) = c2s
           /\ Back(j)' = c2s'
           /\ Sent(c2s', j) = Sent(c2s, j) \cup {x}
           /\ Has(c2s', j, {"cancel"}) <=> Has(c2s, j, {"cancel"})
           /\ ~Has(c2s', j, {"send"})
<1>1. /\ FTTypeOK /\ j \in Jobs /\ j \in DOMAIN rjob /\ up /\ sc' = sc
      /\ UNCHANGED <<sc, up, breaks, rjob, reads, disk, saved, state, from>>
      /\ faulted \subseteq faulted'
      /\ faulted' \subseteq faulted \cup {<<j, k>>}
      /\ c2s' \in Seq(Messages) /\ s2c' \in Seq(Messages) /\ ~sc.upload[j]
      /\ Life(j) /\ Tokens(j) /\ Parts(j)
      /\ k \in DOMAIN sc.files[j] /\ k \in Nat /\ sc \in Scenarios
      /\ j \in DOMAIN wjob /\ DOMAIN wjob' = DOMAIN wjob /\ Less(s2c, s2c', j)
      /\ Gave(c2s, c2s', j, x) /\ x.t = "confirm" /\ x.k = k /\ x.v = v
      /\ state[j] \notin {"new", "saved", "gone", "added"}
      /\ ~Has(c2s, j, {"send", "receive"})
      /\ ~Has(s2c', j, {"digest"}) /\ ~Shown(j)'
      /\ SameItems(s2c, s2c', j) /\ wjob'[j].listed = wjob[j].listed
      /\ WaitsFor(j, k) /\ Clear(s2c, j) /\ ~Has(c2s, j, {"ask", "confirm"})
  BY DEF Inv, WriteDecided, MayFail, IsFile, FTTypeOK, TypeUser
<1>2. /\ Data(j) = s2c /\ Data(j)' = s2c' /\ Back(j) = c2s /\ Back(j)' = c2s'
      /\ Sent(c2s', j) = Sent(c2s, j) \cup {x}
      /\ Has(c2s', j, {"cancel"}) <=> Has(c2s, j, {"cancel"})
      /\ ~Has(c2s', j, {"send", "receive"}) /\ ~Has(c2s', j, {"send"})
  BY <1>1 DEF Data, Back, Gave, Has
<1>3. /\ Live(j)' /\ Live(j)
      /\ At(j) = wjob[j].file_num /\ At(j)' = wjob'[j].file_num
      /\ Open(j) <=> wjob[j].open
      /\ Open(j)' <=> wjob'[j].open
  BY <1>1 DEF Live, At, Open
<1>4. wjob[j].open \in BOOLEAN /\ wjob'[j].open \in BOOLEAN
  <2>1. wjob[j] \in WriteJobs /\ wjob'[j] \in WriteJobs
    BY <1>1 DEF FTTypeOK, TypeJobs, WriteDecided
  <2> QED BY <2>1, WriteIs
<1>5. Open(j) = wjob[j].open /\ Open(j)' = wjob'[j].open
  BY <1>1, <1>3, <1>4 DEF Open
<1>6. FTTypeOK'
  <2>1. TypeJobs' BY <1>1, JobsStep DEF FTTypeOK, TypeJobs, WriteDecided
  <2>2. TypeQueues'
    <3>1. BackOK(j, x) BY <1>1 DEF WriteDecided, BackOK
    <3> QED BY <1>1, <1>2, <3>1, QueuesStep DEF FTTypeOK, Less, WriteDecided
  <2>3. TypeUser'
    BY <1>1 DEF FTTypeOK, TypeUser, Jobs, Files, IsFile, Size, WriteDecided
  <2>4. TypeHistory'
    <3>1. <<j, k>> \in Files BY <1>1, Scenario
    <3>2. kept' \subseteq kept \cup {<<j, k>>} /\ lost' \subseteq Jobs
      BY DEF WriteDecided, Decide
    <3>3. kept' \subseteq Files /\ faulted' \subseteq Files
      BY <1>1, <3>1, <3>2 DEF FTTypeOK, TypeHistory
    <3>4. ASSUME NEW f \in kept' PROVE IsFile(f[1], f[2]) /\ sc.od
      <4>1. CASE f \in kept BY <1>1, <4>1 DEF FTTypeOK, TypeHistory
      <4>2. CASE f = <<j, k>> BY <4>2 DEF WriteDecided
      <4> QED BY <3>2, <3>4, <4>1, <4>2
    <3> QED BY <1>1, <3>2, <3>3, <3>4
            DEF FTTypeOK, TypeHistory, Files, Jobs, IsFile, Size
  <2> QED BY <1>1, <2>1, <2>2, <2>3, <2>4, FilesSame, ReadsSame DEF FTTypeOK
<1>7. ASSUME NEW i \in Jobs \ {j} PROVE Frame(i)
  <2>1. \A n : /\ <<i, n>> \in kept' <=> <<i, n>> \in kept
               /\ <<i, n>> \in faulted' <=> <<i, n>> \in faulted
    <3>1. \A n : <<i, n>> # <<j, k>> OBVIOUS
    <3> QED BY <1>1, <3>1 DEF WriteDecided, Decide
  <2> QED BY <1>1, <2>1 DEF Frame, WriteDecided
<1>8. Life(j)'
  <2>1. LifeIdle(j)' BY <1>1 DEF LifeIdle
  <2>2. LifeStart(j)'
    <3>1. Leads(c2s', j, {"send", "receive"}) /\ Leads(s2c', j, {"dir"})
      BY <1>1, <1>2, NoneOnce DEF Life, LifeStart, Less
    <3>2. ASSUME ~wjob[j].listed
          PROVE  /\ ~wjob'[j].open /\ Has(s2c', j, {"dir"})
      <4>1. ~wjob[j].open /\ Has(s2c, j, {"dir"})
        BY <1>1, <3>2 DEF Life, LifeStart
      <4>2. ~(v > 0) BY <3>2 DEF WriteDecided
      <4>3. Has(s2c', j, {"dir"}) BY <4>1 DEF WriteDecided
      <4>4. ~wjob'[j].open BY <4>1, <4>2 DEF WriteDecided
      <4> QED BY <4>3, <4>4
    <3> QED BY <1>1, <1>2, <3>1, <3>2 DEF LifeStart, Has
  <2>3. LifeEnd(j)'
    BY <1>1, <1>2, <1>3 DEF Life, LifeEnd, Less, Has
  <2> QED BY <2>1, <2>2, <2>3 DEF Life
<1>9. Tokens(j)'
  <2>1. /\ Once(s2c', j, {"digest"}) /\ Trails(s2c', j) /\ Clear(s2c', j)
        /\ Once(c2s', j, {"ask", "confirm"})
    BY <1>1, <1>2 DEF Tokens, Less, SameItems, Gave
  <2> QED BY <1>1, <1>2, <2>1 DEF Tokens, Has, Go, WaitsFor
<1>10. Parts(j)'
  <2>1. OffsetFirst(s2c', j) BY <1>1, <1>2 DEF Parts, Less
  <2>2. \A m \in Sent(c2s', j) : m.t # "ask" BY <1>1, <1>2 DEF Has
  <2>3. \A m \in Sent(s2c', j) : m.t # "confirm"
    BY <1>1, <1>2 DEF Less, FTTypeOK, TypeQueues, DataOK
  <2>4. /\ Open(j) => /\ IsFile(j, wjob[j].on)
                      /\ IsFile(j, At(j)) /\ <<j, At(j)>> \notin faulted =>
                            wjob[j].on = At(j) /\ disk[<<j, At(j)>>].part # None
        /\ \A n \in DOMAIN sc.files[j] :
              disk[<<j, n>>].part # None =>
                  disk[<<j, n>>].digest \/ <<j, n>> \in faulted
        /\ sc.od /\ <<j, rjob[j].file_num>> \in sc.undated =>
              ~rjob[j].confirmed /\ ~rjob[j].waiting
    BY <1>1 DEF Parts
  <2>5. (Open(j) => /\ IsFile(j, wjob[j].on)
                    /\ IsFile(j, At(j)) /\ <<j, At(j)>> \notin faulted =>
                          wjob[j].on = At(j) /\ disk[<<j, At(j)>>].part # None)'
    <3>1. SUFFICES ASSUME Open(j)'
          PROVE  /\ IsFile(j, wjob'[j].on)
                 /\ IsFile(j, At(j)') /\ <<j, At(j)'>> \notin faulted' =>
                       wjob'[j].on = At(j)' /\ disk[<<j, At(j)'>>].part # None
      BY <1>1 DEF IsFile, Size
    <3>2. CASE wjob[j].file_num # k
      BY <1>1, <1>3, <2>4, <3>1, <3>2 DEF WriteDecided
    <3>3. CASE wjob[j].file_num = k /\ v = Skip
      BY <1>3, <3>1, <3>3 DEF WriteDecided
    <3>4. CASE wjob[j].file_num = k /\ v # Skip
      <4>1. /\ wjob'[j].file_num = k
            /\ \/ v > 0 /\ wjob'[j].on = k
               \/ wjob'[j].open = wjob[j].open /\ wjob'[j].on = wjob[j].on
        BY <3>4 DEF WriteDecided
      <4>2. CASE v > 0 /\ wjob'[j].on = k
        <5>1. <<j, k>> \in Files /\ DiskOK(disk) BY <1>1, Scenario DEF FTTypeOK
        <5>2. disk[<<j, k>>].part # None BY <4>2, <5>1, DiskAt
        <5>3. IsFile(j, k) BY DEF WriteDecided
        <5> QED BY <1>3, <4>1, <4>2, <5>2, <5>3
      <4>3. CASE wjob'[j].open = wjob[j].open /\ wjob'[j].on = wjob[j].on
        BY <1>1, <1>3, <2>4, <3>1, <3>4, <4>1, <4>3
      <4> QED BY <4>1, <4>2, <4>3
    <3> QED BY <3>2, <3>3, <3>4
  <2>6. (\A n \in DOMAIN sc.files[j] :
            disk[<<j, n>>].part # None =>
                disk[<<j, n>>].digest \/ <<j, n>> \in faulted)'
    BY <1>1, <2>4
  <2> QED BY <1>1, <1>2, <1>3, <2>1, <2>2, <2>3, <2>4, <2>5, <2>6 DEF Parts
<1> QED BY <1>2, <1>3, <1>5, <1>6, <1>7, <1>8, <1>9, <1>10

\* Such a decision keeps the invariant, if what was received is where it says.
LEMMA WriteDecidedStep ==
    ASSUME Inv, NEW j, NEW k, NEW v, NEW x, WriteDecided(j, k, v, x),
           v > 0 => disk[<<j, k>>].digest,
           JobInv(j) =>
               \/ k > At(j) /\ v <= 0
               \/ /\ k = At(j) /\ ~Open(j)
                  /\ v > 0 => Holds(j, k, v)
                  /\ v = 0 => Empty(j, k)
    PROVE  Inv'
<1>1. /\ FTTypeOK /\ j \in Jobs /\ j \in DOMAIN rjob /\ up /\ sc' = sc
      /\ UNCHANGED <<sc, up, breaks, rjob, reads, disk, saved, state, from>>
      /\ faulted \subseteq faulted'
      /\ faulted' \subseteq faulted \cup {<<j, k>>}
      /\ v <= 0 => faulted' = faulted
      /\ c2s' \in Seq(Messages) /\ s2c' \in Seq(Messages) /\ ~sc.upload[j]
      /\ k \in DOMAIN sc.files[j] /\ k \in Nat /\ sc \in Scenarios
      /\ v \in Int /\ v >= -1 /\ DOMAIN wjob' = DOMAIN wjob /\ j \in DOMAIN wjob
      /\ x.t = "confirm" /\ x.k = k /\ x.v = v /\ sc.od
      /\ state[j] \notin {"new", "saved", "gone", "added"}
      /\ ~Has(s2c', j, {"digest"}) /\ ~Shown(j)' /\ Less(s2c, s2c', j)
      /\ SameItems(s2c, s2c', j) /\ wjob'[j].resume = wjob[j].resume
      /\ WaitsFor(j, k) /\ Clear(s2c, j) /\ ~Has(c2s, j, {"ask", "confirm"})
      /\ \A T : "digest" \notin T => (Has(s2c', j, T) <=> Has(s2c, j, T))
      /\ kept' = IF v = Skip THEN kept \cup {<<j, k>>} ELSE kept \ {<<j, k>>}
  BY DEF Inv, WriteDecided, MayFail, IsFile, FTTypeOK, TypeUser, Skip, Decide
<1>2. /\ FTTypeOK' /\ Life(j)' /\ Tokens(j)' /\ Parts(j)'
      /\ \A i \in Jobs \ {j} : Frame(i)
      /\ Live(j)' /\ Live(j)
      /\ At(j) = wjob[j].file_num /\ At(j)' = wjob'[j].file_num
      /\ Open(j) = wjob[j].open /\ Open(j)' = wjob'[j].open
      /\ Data(j) = s2c /\ Data(j)' = s2c' /\ Back(j) = c2s /\ Back(j)' = c2s'
      /\ Sent(c2s', j) = Sent(c2s, j) \cup {x}
      /\ Has(c2s', j, {"cancel"}) <=> Has(c2s, j, {"cancel"})
      /\ ~Has(c2s', j, {"send"})
  BY WriteDecidedLife
<1> SUFFICES ASSUME JobInv(j) PROVE JobInv(j)'
  <2>1. Sane' => Sane BY <1>1 DEF Sane
  <2> QED BY <1>1, <1>2, <2>1, OwnStep DEF Inv
<1>3. PICK a : a = At(j) /\ a \in Int
  BY <1>1, WriteIs DEF At, FTTypeOK, TypeUser, TypeJobs
<1>4. \/ k > a /\ v <= 0
      \/ /\ k = a /\ ~Open(j)
         /\ v > 0 => Holds(j, k, v)
         /\ v = 0 => Empty(j, k)
  BY <1>3
<1>5. /\ k > a => /\ At(j)' = a /\ (Open(j)' <=> Open(j))
                  /\ wjob'[j].on = wjob[j].on
      /\ k = a /\ v = Skip => At(j)' = k + 1 /\ ~Open(j)'
      /\ k = a /\ v # Skip =>
            /\ At(j)' = a /\ (v <= 0 => ~Open(j)')
            /\ Open(j)' => v > 0 /\ wjob'[j].on = k
            /\ v > 0 => Open(j)' \/ <<j, k>> \in faulted'
  <2>1. /\ wjob[j].file_num # k => /\ wjob'[j].file_num = wjob[j].file_num
                                   /\ wjob'[j].open = wjob[j].open
                                   /\ wjob'[j].on = wjob[j].on
        /\ wjob[j].file_num = k /\ v = Skip =>
              wjob'[j].file_num = k + 1 /\ ~wjob'[j].open
        /\ wjob[j].file_num = k /\ v # Skip =>
              /\ wjob'[j].file_num = k
              /\ \/ v > 0 /\ wjob'[j].open /\ wjob'[j].on = k
                 \/ /\ v <= 0 \/ <<j, k>> \in faulted'
                    /\ wjob'[j].open = wjob[j].open
    BY DEF WriteDecided
  <2>2. wjob[j].file_num = a BY <1>2, <1>3
  <2>3. k > a => /\ At(j)' = a /\ (Open(j)' <=> Open(j))
                 /\ wjob'[j].on = wjob[j].on
    BY <1>1, <1>2, <1>3, <2>1, <2>2
  <2>4. k = a /\ v = Skip => At(j)' = k + 1 /\ ~Open(j)' BY <1>2, <2>1, <2>2
  <2>5. k = a /\ v # Skip =>
            /\ At(j)' = a /\ (v <= 0 => ~Open(j)')
            /\ Open(j)' => v > 0 /\ wjob'[j].on = k
            /\ v > 0 => Open(j)' \/ <<j, k>> \in faulted'
    <3>1. SUFFICES ASSUME k = a, v # Skip
                   PROVE  /\ At(j)' = a /\ (v <= 0 => ~Open(j)')
                          /\ Open(j)' => v > 0 /\ wjob'[j].on = k
                          /\ v > 0 => Open(j)' \/ <<j, k>> \in faulted'
      OBVIOUS
    <3>2. ~Open(j) BY <1>1, <1>3, <1>4, <3>1
    <3>3. wjob'[j].file_num = k BY <2>1, <2>2, <3>1
    <3>4. CASE v > 0 /\ wjob'[j].open /\ wjob'[j].on = k
      BY <1>1, <1>2, <3>1, <3>3, <3>4
    <3>5. CASE (v <= 0 \/ <<j, k>> \in faulted') /\ wjob'[j].open = wjob[j].open
      <4>1. ~Open(j)' BY <1>2, <3>2, <3>5
      <4> QED BY <1>1, <1>2, <3>1, <3>3, <3>5, <4>1
    <3> QED BY <2>1, <2>2, <3>1, <3>4, <3>5
  <2> QED BY <2>3, <2>4, <2>5
<1>6. /\ \A n : Size(j, n)' = Size(j, n) /\ Whole(<<j, n>>)' = Whole(<<j, n>>)
      /\ \A n : Orig(<<j, n>>)' <=> Orig(<<j, n>>)
      /\ \A b : Untouched(j, b) => Untouched(j, b)'
      /\ \A n : Empty(j, n) => Empty(j, n)'
      /\ \A n : LaterFails(<<j, n>>) => LaterFails(<<j, n>>)'
      /\ \A n, b : Holds(j, n, b)' <=> Holds(j, n, b)
  BY <1>1 DEF Size, Whole, Orig, Untouched, Empty, Holds, LaterFails
<1>7. \A n \in DOMAIN sc.files[j] : n \in Nat BY <1>1, Scenario
<1>8. \A n : n # k => (<<j, n>> \in kept' <=> <<j, n>> \in kept)
  <2>1. \A n : n # k => <<j, n>> # <<j, k>> OBVIOUS
  <2> QED BY <1>1, <2>1
<1>9. /\ <<j, k>> \in kept' <=> v = Skip
      /\ Skip # 0 /\ Skip <= 0
  BY <1>1 DEF Skip
<1>10. /\ \A n, b : b \in Int /\ b <= k => (Gap(j, n, b) => Gap(j, n, b)')
       /\ \A n, b : b \in Int /\ b <= k => (Shadowed(j, n, b) => Shadowed(j, n, b)')
       /\ \A n : Shadowed(j, n, k) => Shadowed(j, n, k + 1)'
  <2>1. ASSUME NEW n, NEW b \in Int, b <= k PROVE Gap(j, n, b) => Gap(j, n, b)'
    <3>1. \A y \in DOMAIN sc.files[j] : y < b => y # k BY <1>1, <1>7, <2>1
    <3> QED BY <1>1, <1>8, <3>1 DEF Gap
  <2>2. ASSUME NEW n, NEW b \in Int, b <= k
        PROVE  Shadowed(j, n, b) => Shadowed(j, n, b)'
    <3>1. \A y \in DOMAIN sc.files[j] :
             y <= b => y <= k /\ y \in Int /\ (Gap(j, n, y) => Gap(j, n, y)')
      BY <1>1, <1>7, <2>1, <2>2
    <3> QED BY <1>1, <1>6, <3>1 DEF Shadowed
  <2>3. ASSUME NEW n, Shadowed(j, n, k) PROVE Shadowed(j, n, k + 1)'
    <3>1. PICK y \in DOMAIN sc.files[j] :
             n < y /\ y <= k /\ Size(j, y) = Dir /\ Gap(j, n, y)
      BY <2>3 DEF Shadowed
    <3>2. Gap(j, n, y)' /\ y <= k + 1 BY <1>1, <1>7, <2>1, <3>1
    <3> QED BY <1>1, <1>6, <3>1, <3>2 DEF Shadowed
  <2> QED BY <2>1, <2>2, <2>3
<1>11. Untouched(j, a) /\ WholeBefore(j, a) BY <1>2, <1>3 DEF JobInv, Touch
<1>12. Clear(s2c', j) BY <1>1 DEF SameItems
<1>13. \A m \in Sent(s2c', j) : m.t # "block" /\ m.t # "confirm" /\ m.t # "done"
  <2>1. \A m \in Sent(s2c', j) : ~Item(m, j) BY <1>1, <1>12, ClearNone
  <2>2. \A m \in Sent(s2c', j) : m.j = j BY DEF Sent
  <2>3. \A m \in Sent(s2c', j) : m.t # "confirm"
    BY <1>1, <1>2 DEF Less, FTTypeOK, TypeQueues, DataOK
  <2> QED BY <2>1, <2>2, <2>3 DEF Item
<1>14. Touch(j)'
  <2>1. PICK b : b = At(j)' OBVIOUS
  <2>2. Untouched(j, b)' /\ WholeBefore(j, b)'
    <3>1. CASE k > a \/ v # Skip
      <4>1. b = a /\ a <= k BY <1>1, <1>3, <1>4, <1>5, <2>1, <3>1
      <4>2. ASSUME NEW n \in DOMAIN sc.files[j], n < a
            PROVE  /\ <<j, n>> \in kept' <=> <<j, n>> \in kept
                   /\ Shadowed(j, n, a) => Shadowed(j, n, a)'
        BY <1>1, <1>3, <1>7, <1>8, <1>10, <4>1, <4>2
      <4> QED BY <1>1, <1>6, <1>11, <4>1, <4>2 DEF WholeBefore
    <3>2. CASE k = a /\ v = Skip
      <4>1. b = k + 1 BY <1>5, <2>1, <3>2
      <4>2. Untouched(j, k + 1) BY <1>1, <1>7, <1>11, <3>2 DEF Untouched
      <4>3. ASSUME NEW n \in DOMAIN sc.files[j], n < k + 1,
                   Size(j, n) # Dir, <<j, n>> \notin kept' \cup faulted
            PROVE  \/ disk[<<j, n>>].final = Whole(<<j, n>>)
                   \/ Shadowed(j, n, k + 1)'
        <5>1. n # k BY <1>9, <3>2, <4>3
        <5>2. n < a /\ <<j, n>> \notin kept \cup faulted
          BY <1>1, <1>7, <1>8, <3>2, <4>3, <5>1
        <5> QED BY <1>1, <1>10, <1>11, <3>2, <4>3, <5>2 DEF WholeBefore
      <4> QED BY <1>1, <1>6, <4>1, <4>2, <4>3 DEF WholeBefore
    <3> QED BY <1>4, <3>1, <3>2
  <2> QED BY <1>1, <1>2, <2>1, <2>2 DEF Touch
<1>15. Resumed(j)'
  <2>1. /\ breaks = 0 => /\ ~rjob[j].resume /\ ~wjob[j].resume /\ state[j] # "added"
    BY <1>1 DEF JobInv, Resumed
  <2>2. ASSUME ~Open(j)', At(j)' \in DOMAIN sc.files[j]
        PROVE  disk[<<j, At(j)'>>].part = None \/ wjob[j].resume
    <3>1. CASE k > a \/ v # Skip
      <4>1. At(j)' = a /\ ~Open(j) BY <1>4, <1>5, <2>2, <3>1
      <4> QED BY <1>1, <1>2, <1>3, <2>2, <4>1 DEF JobInv, Resumed
    <3>2. CASE k = a /\ v = Skip
      BY <1>1, <1>5, <1>11, <2>2, <3>2 DEF Untouched
    <3> QED BY <1>4, <3>1, <3>2
  <2> QED BY <1>1, <2>1, <2>2 DEF Resumed
<1>16. Torn(j)' BY <1>1, <1>6 DEF JobInv, Torn, IsPrefixOf
<1>17. Chain(j)'
  <2>1. \A y : ~Opens(s2c', j, y) /\ ~Closes(s2c', j, y)
    BY <1>1, <1>12, OpensSent, ClearNone
  <2>2. \A y, z : ~Follows(s2c', j, y, z)
    BY <1>1, <1>12, OpensSent, ClearNone
  <2>3. NoneOK(j)'
    <3>1. NoneOK(j) BY <1>1, <1>2 DEF JobInv, Chain
    <3>2. /\ ~Go(j) /\ ~Go(j)' /\ rjob[j].pos = 1 /\ rjob[j].file_num = k
          /\ rjob[j].waiting
      BY <1>1 DEF Go, WaitsFor
    <3>3. Has(c2s', j, {"confirm"}) BY <1>1, <1>2 DEF Has
    <3>4. CASE k > a
      <4>1. Passed(j, a) /\ Gap(j, a, k)
        BY <1>1, <1>3, <3>1, <3>2, <3>4 DEF NoneOK
      <4>2. Gap(j, a, k)' BY <1>1, <1>10, <4>1
      <4>3. Passed(j, a)'
        <5>1. <<j, a>> \in kept' <=> <<j, a>> \in kept BY <1>1, <1>3, <1>8, <3>4
        <5> QED BY <1>1, <1>6, <4>1, <5>1 DEF Passed
      <4> QED BY <1>1, <1>5, <3>2, <3>4, <4>2, <4>3 DEF NoneOK
    <3>5. CASE k = a /\ v = Skip
      BY <1>1, <1>2, <1>5, <3>2, <3>3, <3>5 DEF NoneOK
    <3>6. CASE k = a /\ v # Skip /\ Open(j)'
      BY <1>1, <1>2, <1>5, <3>2, <3>3, <3>6 DEF NoneOK
    <3>7. CASE k = a /\ v # Skip /\ ~Open(j)'
      BY <1>1, <1>2, <1>5, <3>2, <3>7 DEF NoneOK
    <3> QED BY <1>4, <3>4, <3>5, <3>6, <3>7
  <2> QED BY <1>2, <2>1, <2>2, <2>3 DEF Chain
<1>18. Reached(j)' BY <1>1, <1>2, <1>13 DEF Reached
<1>19. Answers(j)'
  <2>1. \A m \in Sent(c2s', j) : m.t \in {"ask", "confirm"} => m = x
    BY <1>1, <1>2 DEF Has
  <2>2. ConfirmOK(j, x)'
    <3>1. CASE v = Skip BY <1>1, <1>3, <1>4, <1>5, <3>1 DEF ConfirmOK
    <3>2. CASE v # Skip
      <4>1. v = 0 /\ k = a => Blank(j, k)'
        BY <1>1, <1>3, <1>4, <1>6, <1>9, <3>2 DEF Blank
      <4> QED BY <1>1, <1>3, <1>4, <1>5, <1>6, <3>2, <4>1 DEF ConfirmOK, Skip
    <3> QED BY <3>1, <3>2
  <2>3. \A m \in Sent(s2c', j) : m.t # "digest" BY <1>1 DEF Has
  <2> QED BY <1>1, <1>2, <1>9, <2>1, <2>2, <2>3 DEF Answers
<1>20. Keeps(j)'
  <2>1. ~rjob[j].confirmed BY <1>1 DEF WaitsFor
  <2>2. (Open(j) => /\ <<j, At(j)>> \notin kept
                    /\ <<j, wjob[j].on>> \notin kept /\ wjob[j].on <= At(j))'
    <3>1. CASE k > a
      <4>1. Open(j) => /\ <<j, a>> \notin kept /\ <<j, wjob[j].on>> \notin kept
                       /\ wjob[j].on <= a /\ wjob[j].on \in Int
        BY <1>1, <1>3, WriteIs DEF JobInv, Keeps, FTTypeOK, TypeJobs
      <4>2. Open(j) => wjob[j].on # k BY <1>1, <1>3, <3>1, <4>1
      <4> QED BY <1>1, <1>3, <1>5, <1>8, <3>1, <4>1, <4>2
    <3>2. CASE k = a BY <1>3, <1>5, <1>9, <3>2
    <3> QED BY <1>4, <3>1, <3>2
  <2>3. ASSUME NEW n \in DOMAIN sc.files[j], <<j, n>> \in kept' \ faulted'
        PROVE  /\ Orig(<<j, n>>)
               /\ n >= At(j)' /\ breaks = 0 => disk[<<j, n>>].part = None
    <3>1. CASE n = k
      BY <1>1, <1>3, <1>4, <1>5, <1>9, <1>11, <2>3, <3>1 DEF Untouched
    <3>2. CASE n # k
      <4>1. <<j, n>> \in kept \ faulted BY <1>1, <1>8, <2>3, <3>2
      <4>2. n >= At(j)' => n >= a BY <1>1, <1>3, <1>4, <1>5, <1>7, <2>3
      <4> QED BY <1>1, <1>2, <1>3, <2>3, <4>1, <4>2 DEF JobInv, Keeps
    <3> QED BY <3>1, <3>2
  <2> QED BY <1>1, <1>2, <1>6, <1>13, <2>1, <2>2, <2>3 DEF Keeps
<1>21. Ending(j)'
  <2>1. state[j] # "done" BY <1>1, <1>2 DEF Life, LifeEnd
  <2>2. Has(s2c', j, {"error"}) => Has(s2c, j, {"error"}) BY <1>1
  <2>3. ~Has(s2c', j, {"done"}) BY <1>13 DEF Has
  <2> QED BY <1>1, <1>2, <2>1, <2>2, <2>3 DEF JobInv, Ending, Undated
<1>22. Leftover(j)'
  <2>1. SUFFICES ASSUME breaks = 0, faulted = {} PROVE Leftover(j)'
    BY <1>1 DEF Leftover
  <2>2. /\ ~rjob[j].error /\ ~Has(s2c, j, {"error"})
        /\ rjob[j].skipped /\ Len(sc.files[j]) = 1 => rjob[j].file_num > 1
        /\ \A n \in DOMAIN sc.files[j] :
              disk[<<j, n>>].part # None => n = a \/ Shadowed(j, n, a)
    BY <1>1, <1>2, <1>3, <2>1 DEF JobInv, Leftover
  <2>3. ~Has(s2c', j, {"error"}) BY <1>1, <2>2
  <2>4. ~(rjob[j].skipped /\ Len(sc.files[j]) = 1)
    BY <1>1, <2>2, Scenario DEF WaitsFor
  <2>5. PICK b : b = At(j)' OBVIOUS
  <2>6. ASSUME NEW n \in DOMAIN sc.files[j], disk[<<j, n>>].part # None
        PROVE  n = b \/ Shadowed(j, n, b)'
    <3>1. CASE k > a \/ v # Skip
      BY <1>1, <1>3, <1>4, <1>5, <1>10, <2>2, <2>5, <2>6, <3>1
    <3>2. CASE k = a /\ v = Skip
      <4>1. disk[<<j, k>>].part = None
        BY <1>1, <1>2, <1>3, <1>4, <2>1, <3>2 DEF JobInv, Resumed
      <4> QED BY <1>5, <1>10, <2>2, <2>5, <2>6, <3>2, <4>1
    <3> QED BY <1>4, <3>1, <3>2
  <2> QED BY <1>1, <1>2, <2>2, <2>3, <2>4, <2>5, <2>6 DEF Leftover
<1> QED BY <1>14, <1>15, <1>16, <1>17, <1>18, <1>19, <1>20, <1>21, <1>22
        DEF JobInv

\* A digest that is not answered, for the file could not be looked at.
LEMMA UnansweredStep ==
    ASSUME Inv, NEW j \in Jobs, NEW m, NEW k, up, IsFile(j, k),
           UNCHANGED <<sc, up, breaks, rjob, wjob, reads, disk, dialog, saved,
                       state,
                       from, kept, lost>>,
           faulted' = faulted \cup {<<j, k>>},
           Took(Data(j), Data(j)', j, m), Back(j)' = Back(j), m.t = "digest",
           ~Has(Back(j), j, {"ask", "confirm"}), ~Shown(j),
           c2s' \in Seq(Messages), s2c' \in Seq(Messages),
           \A i : i # j => SameQueue(c2s, c2s', i) /\ SameQueue(s2c, s2c', i)
    PROVE  Inv'
<1>1. /\ FTTypeOK /\ sc' = sc /\ sc.upload[j] \in BOOLEAN
      /\ Life(j) /\ Tokens(j) /\ Parts(j) /\ (Sane => JobInv(j))
  BY Scenario DEF Inv, FTTypeOK, TypeUser
<1>2. /\ Less(Data(j), Data(j)', j) /\ Less(Back(j), Back(j)', j)
      /\ Less(c2s, c2s', j) /\ Less(s2c, s2c', j) /\ m \in Sent(Data(j), j)
      /\ SameItems(Data(j), Data(j)', j)
      /\ \A T : "digest" \notin T => (Has(Data(j)', j, T) <=> Has(Data(j), j, T))
  <2>1. /\ Less(Data(j), Data(j)', j) /\ Less(Back(j), Back(j)', j) BY LessIs
  <2>2. /\ Less(c2s, c2s', j) /\ Less(s2c, s2c', j) BY <1>1, <2>1 DEF Data, Back
  <2>3. SameItems(Data(j), Data(j)', j) BY <1>1 DEF Took, Item
  <2> QED BY <2>1, <2>2, <2>3 DEF Took, Has
<1>3. state[j] \notin {"new", "saved", "gone", "added"}
  BY <1>1, <1>2 DEF Life, LifeIdle, Data
<1>4. FTTypeOK'
  <2>1. TypeJobs' BY <1>1, JobsStep DEF FTTypeOK, TypeJobs
  <2>2. TypeQueues' BY <1>1, <1>2, QueuesStep DEF FTTypeOK, Less
  <2>3. TypeHistory' BY <1>1, HistoryFails
  <2> QED BY <1>1, <2>1, <2>2, <2>3, UserSame, ReadsSame, FilesSame DEF FTTypeOK
<1>5. ASSUME NEW i \in Jobs \ {j} PROVE Frame(i)
  <2>1. \A n : <<i, n>> \in faulted' <=> <<i, n>> \in faulted
    <3>1. \A n : <<i, n>> # <<j, k>> OBVIOUS
    <3> QED BY <3>1
  <2> QED BY <2>1 DEF Frame, Shown
<1>6. /\ Live(j)' <=> Live(j)
      /\ At(j)' = At(j) /\ (Open(j)' <=> Open(j)) /\ (Shown(j)' <=> Shown(j))
      /\ \A T : "digest" \notin T => /\ Has(c2s', j, T) <=> Has(c2s, j, T)
                                     /\ Has(s2c', j, T) <=> Has(s2c, j, T)
  <2>1. \A T : "digest" \notin T => /\ Has(c2s', j, T) <=> Has(c2s, j, T)
                                    /\ Has(s2c', j, T) <=> Has(s2c, j, T)
    BY <1>1, <1>2 DEF Data, Back
  <2> QED BY <2>1 DEF Live, At, Open, Shown
<1>7. Life(j)'
  <2>1. LifeIdle(j)' BY <1>3 DEF LifeIdle
  <2>2. LifeStart(j)' BY <1>1, <1>2, <1>3, <1>6 DEF Life, LifeStart, Less
  <2>3. LifeEnd(j)'
    <3>1. Has(s2c', j, {"digest"}) => Has(s2c, j, {"digest"})
      BY <1>2 DEF Has, Less
    <3> QED BY <1>1, <1>2, <1>6, <3>1 DEF Life, LifeEnd, Less
  <2> QED BY <2>1, <2>2, <2>3 DEF Life
<1>8. Tokens(j)' BY <1>1, <1>2, SameTokens DEF Less, Shown, SameItems
<1>9. Parts(j)'
  <2>1. (Open(j) => /\ IsFile(j, wjob[j].on)
                    /\ IsFile(j, At(j)) /\ <<j, At(j)>> \notin faulted =>
                          wjob[j].on = At(j) /\ disk[<<j, At(j)>>].part # None)'
    BY <1>1, <1>6 DEF Parts, IsFile, Size
  <2>2. (\A n \in DOMAIN sc.files[j] :
            disk[<<j, n>>].part # None =>
                disk[<<j, n>>].digest \/ <<j, n>> \in faulted)'
    BY <1>1 DEF Parts
  <2> QED BY <1>1, <1>2, <1>6, <2>1, <2>2 DEF Parts, Less
<1>10. ASSUME JobInv(j) PROVE JobInv(j)'
  <2>1. SameDisk(j) BY DEF SameDisk
  <2>2. SameFacts(j) BY <2>1, SameDiskFacts
  <2>3. Quiet(j)
    BY <1>1, <1>2, <1>6, <2>1 DEF Quiet, Less
  <2>4. Answers(j)'
    <3>1. /\ ~Has(Back(j)', j, {"ask", "confirm"}) /\ ~Shown(j)'
          /\ Clear(Data(j)', j) <=> Clear(Data(j), j)
      BY <1>2, <1>6 DEF SameItems
    <3>2. \A x \in Sent(Data(j)', j) : x \in Sent(Data(j), j) BY <1>2 DEF Less
    <3>3. \A x : DigestOK(j, x) => DigestOK(j, x)' BY <1>6 DEF DigestOK
    <3> QED BY <1>6, <1>10, <3>1, <3>2, <3>3 DEF JobInv, Answers, Has
  <2>5. Ending(j)'
    BY <1>1, <1>6, <1>10, <2>2 DEF JobInv, Ending, Undated, AllWhole, SameFacts
  <2>6. Leftover(j)' BY DEF Leftover
  <2> QED BY <1>10, <2>3, <2>4, <2>5, <2>6, QuietStep DEF JobInv
<1>11. Sane' => Sane BY DEF Sane
<1> QED BY <1>1, <1>4, <1>5, <1>7, <1>8, <1>9, <1>10, <1>11, OwnStep

\* FileResponse::Digest of a download.
LEMMA OnDigestStep ==
    ASSUME Inv, OnDigest
    PROVE  Inv'
<1>1. /\ FTTypeOK /\ s2c # <<>> /\ Head(s2c).t = "digest"
      /\ UNCHANGED <<sc, up, breaks, rjob, reads, disk, saved, state, from>>
  BY DEF Inv, OnDigest, ClientGets
<1>2. ASSUME NEW msgs, NEW m, NEW j, ClientTook(m, j, msgs), m.t = "digest"
      PROVE  /\ j \in Jobs /\ m \in Sent(s2c, j) /\ up /\ m \in Messages
             /\ Took(s2c, s2c', j, m) /\ m.j = j /\ ~sc.upload[j] /\ sc' = sc
             /\ \A i : i # j => SameQueue(c2s, c2s', i) /\ SameQueue(s2c, s2c', i)
             /\ c2s' \in Seq(Messages) /\ s2c' \in Seq(Messages)
             /\ msgs = <<>> => c2s' = c2s
             /\ Data(j) = s2c /\ Data(j)' = s2c' /\ Back(j) = c2s
             /\ Back(j)' = c2s'
             /\ Life(j) /\ Tokens(j) /\ Parts(j)
             /\ m.k \in Nat /\ IsFile(j, m.k) /\ sc.od
             /\ ~Has(c2s, j, {"send", "receive"})
             /\ state[j] \notin {"new", "saved", "gone", "added"}
             /\ SameItems(s2c, s2c', j)
  <2>1. /\ j \in Jobs /\ m \in Sent(s2c, j) /\ up /\ m \in Messages
        /\ Took(s2c, s2c', j, m) /\ m.j = j /\ ~sc.upload[j] /\ sc' = sc
        /\ \A i : i # j => SameQueue(c2s, c2s', i) /\ SameQueue(s2c, s2c', i)
        /\ c2s' \in Seq(Messages) /\ s2c' \in Seq(Messages)
        /\ msgs = <<>> => c2s' = c2s
        /\ DataOK(j, m)
    BY <1>1, <1>2 DEF ClientTook, BackOK
  <2>2. Data(j) = s2c /\ Data(j)' = s2c' /\ Back(j) = c2s /\ Back(j)' = c2s'
    BY <2>1 DEF Data, Back
  <2>3. Life(j) /\ Tokens(j) /\ Parts(j) BY <2>1 DEF Inv
  <2>4. ~Has(c2s, j, {"send", "receive"})
    BY <2>1, <2>3 DEF Life, LifeStart, Has
  <2>5. state[j] \notin {"new", "saved", "gone", "added"}
    BY <2>1, <2>3 DEF Life, LifeIdle
  <2>6. m.k \in Nat /\ IsFile(j, m.k) /\ sc.od
    BY <1>2, <2>1, MessageIs DEF DataOK
  <2>7. SameItems(s2c, s2c', j) BY <1>2, <2>1 DEF Took, Item
  <2> QED BY <2>1, <2>2, <2>3, <2>4, <2>5, <2>6, <2>7
<1>3. ASSUME NEW msgs, NEW m, NEW j, ClientTook(m, j, msgs), m.t = "digest",
             j \in DOMAIN wjob, wjob[j].listed
      PROVE  /\ j \in DOMAIN rjob
             /\ WaitsFor(j, m.k) /\ Clear(s2c, j) /\ ~Has(s2c', j, {"digest"})
             /\ ~Has(c2s, j, {"ask", "confirm"}) /\ ~Shown(j)
             /\ JobInv(j) => DigestOK(j, m)
  <2>1. /\ Tokens(j) /\ Life(j) /\ Data(j) = s2c /\ Back(j) = c2s
        /\ m \in Sent(s2c, j) /\ Took(s2c, s2c', j, m) /\ ~sc.upload[j]
    BY <1>2, <1>3
  <2>2. Has(s2c, j, {"digest"}) BY <1>3, <2>1 DEF Has
  <2>3. j \in DOMAIN rjob BY <1>3, <2>1, <2>2 DEF Life, LifeEnd
  <2>4. /\ WaitsFor(j, m.k) /\ Clear(s2c, j) /\ ~Has(s2c', j, {"digest"})
        /\ ~Has(c2s, j, {"ask", "confirm"}) /\ ~Shown(j)
    BY <1>3, <2>1, <2>2, <2>3 DEF Tokens, Took
  <2>5. Live(j) BY <1>3 DEF Live
  <2>6. JobInv(j) => DigestOK(j, m)
    BY <1>3, <2>1, <2>3, <2>4, <2>5 DEF JobInv, Answers
  <2> QED BY <2>3, <2>4, <2>6
<1>4. CASE /\ ~(Head(s2c).j \in DOMAIN wjob /\ wjob[Head(s2c).j].listed)
           /\ ClientTakes(<<>>) /\ UNCHANGED <<wjob, dialog, kept, lost,
                            faulted>>
  <2>1. PICK m, j : /\ ClientTook(m, j, <<>>) /\ m.t = "digest"
                    /\ ~(j \in DOMAIN wjob /\ wjob[j].listed)
    BY <1>1, <1>4, ClientTake
  <2>2. ~Has(s2c, j, {"dir"})
    BY <1>2, <2>1 DEF Life, LifeStart, Took, Has
  <2>3. j \notin DOMAIN wjob BY <1>2, <2>1, <2>2 DEF Life, LifeStart
  <2>4. ~Live(j) /\ ~Live(j)' BY <1>2, <1>4, <2>1, <2>3 DEF Live, Has
  <2> QED BY <1>1, <1>2, <1>4, <2>1, <2>4, UnheardStep
<1>5. ASSUME NEW m, NEW j, NEW n, j \in Jobs, IsFile(j, m.k), ~sc.upload[j],
             j \in DOMAIN wjob, m.k \in Nat, state[j] # "added",
             n = Transferred(j, m.k, wjob[j].resume), DigestOK(j, m), JobInv(j)
      PROVE  /\ m.k > At(j) => n = 0
             /\ m.k # At(j) => m.k > At(j)
             /\ m.k = At(j) => ~Open(j)
             /\ m.k = At(j) /\ n = 0 => Empty(j, m.k)
             /\ n > 0 => Holds(j, m.k, n)
             /\ n \in Nat
  <2>1. m.k \in DOMAIN sc.files[j] BY <1>5 DEF IsFile
  <2>2. /\ n \in Nat
        /\ n > 0 => wjob[j].resume /\ Holds(j, m.k, n)
        /\ n = 0 => ~wjob[j].resume \/ Empty(j, m.k)
    BY <1>1, <1>5, <2>1, TransferredIs DEF Inv
  <2>3. At(j) \in Int /\ Live(j)
    BY <1>1, <1>5, WriteIs DEF At, FTTypeOK, TypeUser, TypeJobs, Live
  <2>4. m.k > At(j) => n = 0
    BY <1>5, <2>1, <2>2, <2>3 DEF JobInv, Touch, Untouched, Holds
  <2>5. m.k = At(j) => ~Open(j) BY <1>5, <2>3 DEF DigestOK
  <2>6. ASSUME m.k = At(j), n = 0 PROVE Empty(j, m.k)
    <3>1. CASE Empty(j, m.k) BY <3>1
    <3>2. CASE ~wjob[j].resume
      <4>1. disk[<<j, m.k>>].part = None
        BY <1>5, <2>1, <2>3, <2>5, <2>6, <3>2 DEF JobInv, Resumed
      <4> QED BY <4>1 DEF Empty
    <3> QED BY <2>2, <2>6, <3>1, <3>2
  <2> QED BY <1>5, <2>2, <2>3, <2>4, <2>5, <2>6 DEF DigestOK
<1>6. ASSUME Head(s2c).j \in DOMAIN wjob, wjob[Head(s2c).j].listed,
             ClientTakes(<<>>), Ask(Head(s2c).j, Head(s2c).k),
             UNCHANGED <<wjob, kept, faulted>>,
             ~(Transferred(Head(s2c).j, Head(s2c).k, wjob[Head(s2c).j].resume) > 0)
      PROVE  Inv'
  <2>1. PICK m, j, n : /\ ClientTook(m, j, <<>>) /\ m.t = "digest"
                       /\ j \in DOMAIN wjob
                       /\ wjob[j].listed /\ Ask(j, m.k)
                       /\ n = Transferred(j, m.k, wjob[j].resume) /\ ~(n > 0)
    BY <1>1, <1>6, ClientTake
  <2>2. Asked(j, m.k)
    <3>1. /\ j \in Jobs /\ up /\ ~sc.upload[j]
          /\ Took(s2c, s2c', j, m) /\ c2s' = c2s
          /\ Data(j) = s2c /\ Data(j)' = s2c' /\ Back(j) = c2s
          /\ Back(j)' = c2s'
          /\ m.k \in Nat /\ IsFile(j, m.k) /\ sc.od
          /\ ~Has(c2s, j, {"send", "receive"})
          /\ state[j] \notin {"new", "saved", "gone", "added"}
          /\ c2s' \in Seq(Messages) /\ s2c' \in Seq(Messages)
          /\ \A i : i # j => SameQueue(c2s, c2s', i) /\ SameQueue(s2c, s2c', i)
      BY <1>2, <2>1
    <3>2. /\ j \in DOMAIN rjob
          /\ WaitsFor(j, m.k) /\ Clear(s2c, j) /\ ~Has(s2c', j, {"digest"})
          /\ ~Has(c2s, j, {"ask", "confirm"})
      BY <1>3, <2>1
    <3> QED BY <1>1, <1>6, <2>1, <3>1, <3>2 DEF Asked
  <2>3. ASSUME JobInv(j), Live(j)
        PROVE  m.k > At(j) \/ (m.k = At(j) /\ ~Open(j) /\ Empty(j, m.k))
    <3>1. DigestOK(j, m) BY <1>3, <2>1, <2>3
    <3>2. /\ j \in Jobs /\ IsFile(j, m.k) /\ ~sc.upload[j] /\ m.k \in Nat
          /\ state[j] # "added"
      BY <1>2, <2>1
    <3>3. /\ m.k # At(j) => m.k > At(j)
          /\ m.k = At(j) => ~Open(j)
          /\ m.k = At(j) /\ n = 0 => Empty(j, m.k)
          /\ n \in Nat
      BY <1>5, <2>1, <2>3, <3>1, <3>2
    <3> QED BY <2>1, <3>3
  <2> QED BY <2>2, <2>3, AskStep
<1>7. ASSUME NEW v, NEW n, NEW o, Head(s2c).j \in DOMAIN wjob, wjob[Head(s2c).j].listed,
             n = Transferred(Head(s2c).j, Head(s2c).k, wjob[Head(s2c).j].resume),
             \/ v = 0 /\ ~(n > 0)
             \/ v = n /\ n > 0
             \/ v = wjob[Head(s2c).j].strategy /\ ~(n > 0),
             v # Unset, o \in Seeks(wjob[Head(s2c).j], Head(s2c).k, v),
             Sought(Head(s2c).j, Head(s2c).k, v, o),
             wjob' = [wjob EXCEPT ![Head(s2c).j] = ConfirmWrite(@, Head(s2c).k, o)],
             ClientTakes(<<Msg("confirm", Head(s2c).j, Head(s2c).k, v)>>),
             Decide(Head(s2c).j, Head(s2c).k, v), UNCHANGED <<dialog, lost>>
      PROVE  Inv'
  <2>1. /\ Head(s2c).k \in Nat /\ Head(s2c).j \in Jobs
        /\ Head(s2c) \in Sent(s2c, Head(s2c).j)
    BY <1>1, HeadIs DEF FTTypeOK, TypeQueues
  <2>2. wjob[Head(s2c).j].strategy \in {0, Skip, Unset}
    BY <1>1, <1>7, WriteIs DEF FTTypeOK, TypeJobs
  <2>3. n \in Nat /\ (n > 0 => /\ Holds(Head(s2c).j, Head(s2c).k, n)
                               /\ disk[<<Head(s2c).j, Head(s2c).k>>].digest)
    <3>1. Head(s2c).k \in DOMAIN sc.files[Head(s2c).j]
      <4>1. CASE sc.upload[Head(s2c).j]
        BY <1>1, <2>1, <4>1 DEF FTTypeOK, TypeQueues, Back, BackOK
      <4>2. CASE ~sc.upload[Head(s2c).j]
        BY <1>1, <2>1, <4>2 DEF FTTypeOK, TypeQueues, Data, DataOK, IsFile
      <4> QED BY <4>1, <4>2
    <3> QED BY <1>1, <1>7, <2>1, <3>1, TransferredIs DEF Inv
  <2>4. v \in Nat \cup {Skip} /\ v \in Int
    BY <1>7, <2>2, <2>3 DEF Skip
  <2>5. PICK x : /\ ClientTook(Head(s2c), Head(s2c).j, <<x>>)
                 /\ x.t = "confirm" /\ x.k = Head(s2c).k /\ x.v = v
                 /\ Gave(c2s, c2s', Head(s2c).j, x)
    <3>1. "confirm" \in Kinds BY DEF Kinds
    <3>2. ClientTakes(<<Msg("confirm", Head(s2c).j, Head(s2c).k, v)>>) BY <1>7
    <3>3. Head(s2c).k \in Nat /\ v \in Int BY <2>1, <2>4
    <3>4. FTTypeOK /\ s2c # <<>> BY <1>1
    <3> HIDE <1>7
    <3>5. ClientReplied("confirm", Head(s2c).k, v)
      BY <3>1, <3>2, <3>3, <3>4, ClientSends
    <3> QED BY <3>5 DEF ClientReplied
  <2>6. PICK m, j : /\ ClientTook(m, j, <<x>>) /\ m.t = "digest"
                    /\ j \in DOMAIN wjob
                    /\ wjob[j].listed
                    /\ x.t = "confirm" /\ x.k = m.k /\ x.v = v
                    /\ Gave(c2s, c2s', j, x)
                    /\ wjob' = [wjob EXCEPT ![j] = ConfirmWrite(@, m.k, o)]
                    /\ Decide(j, m.k, v) /\ o \in Seeks(wjob[j], m.k, v)
                    /\ Sought(j, m.k, v, o)
                    /\ (n > 0 => disk[<<j, m.k>>].digest)
                    /\ n = Transferred(j, m.k, wjob[j].resume)
                    /\ n > 0 => Holds(j, m.k, n)
    BY <1>1, <1>7, <2>3, <2>5
  <2>7. /\ j \in Jobs /\ ~sc.upload[j] /\ sc' = sc /\ up
        /\ Took(s2c, s2c', j, m) /\ c2s' \in Seq(Messages)
        /\ s2c' \in Seq(Messages)
        /\ \A i : i # j => SameQueue(c2s, c2s', i) /\ SameQueue(s2c, s2c', i)
        /\ m.k \in Nat /\ IsFile(j, m.k) /\ sc.od
        /\ ~Has(c2s, j, {"send", "receive"}) /\ SameItems(s2c, s2c', j)
        /\ state[j] \notin {"new", "saved", "gone", "added"}
    BY <1>2, <2>6
  <2>8. /\ j \in DOMAIN rjob
        /\ WaitsFor(j, m.k) /\ Clear(s2c, j) /\ ~Has(s2c', j, {"digest"})
        /\ ~Has(c2s, j, {"ask", "confirm"}) /\ ~Shown(j)
        /\ JobInv(j) => DigestOK(j, m)
    BY <1>3, <2>6
  <2>9. /\ DOMAIN wjob' = DOMAIN wjob
        /\ \A i \in DOMAIN wjob : i # j => wjob'[i] = wjob[i]
        /\ wjob'[j] = ConfirmWrite(wjob[j], m.k, o)
    BY <2>6
  <2>10. /\ MayFail(j, m.k, v) /\ o \in Nat \cup {Skip}
         /\ o = v \/ (o = 0 /\ v > 0 /\ <<j, m.k>> \in faulted')
    BY <2>4, <2>6, SoughtIs
  <2>11. LET s == ConfirmWrite(wjob[j], m.k, o) IN
         /\ s \in WriteJobs /\ s.last = wjob[j].last
         /\ s.resume = wjob[j].resume
         /\ s.strategy = wjob[j].strategy /\ s.listed = wjob[j].listed
         /\ wjob[j].file_num # m.k => s = wjob[j]
         /\ wjob[j].file_num = m.k /\ v = Skip =>
               s.file_num = m.k + 1 /\ ~s.open
         /\ wjob[j].file_num = m.k /\ v # Skip =>
               /\ s.file_num = m.k
               /\ \/ v > 0 /\ s.open /\ s.on = m.k
                  \/ /\ v <= 0 \/ <<j, m.k>> \in faulted'
                     /\ s.open = wjob[j].open /\ s.on = wjob[j].on
    <3>1. wjob[j] \in WriteJobs BY <1>1, <2>6 DEF FTTypeOK, TypeJobs
    <3>2. m.k \in Nat /\ o \in Nat \cup {Skip} BY <2>7, <2>10
    <3>3. WriteAfter(wjob[j], m.k, o, ConfirmWrite(wjob[j], m.k, o))
      BY <3>1, <3>2, ConfirmWriteIs
    <3>4. CASE o = v
      <4>1. ~(v > 0) => v <= 0 BY <2>4
      <4> HIDE DEF ConfirmWrite
      <4> QED BY <3>3, <3>4, <4>1 DEF WriteAfter
    <3>5. CASE o = 0 /\ v > 0 /\ <<j, m.k>> \in faulted'
      <4>1. o # Skip /\ v # Skip /\ ~(o > 0) BY <2>4, <3>5 DEF Skip
      <4> QED BY <3>3, <3>5, <4>1 DEF WriteAfter
    <3> QED BY <2>10, <3>4, <3>5
  <2>12. WriteDecided(j, m.k, v, x)
    <3>1. Less(s2c, s2c', j) BY <2>7, LessIs
    <3>2. \A T : "digest" \notin T => (Has(s2c', j, T) <=> Has(s2c, j, T))
      BY <2>6, <2>7 DEF Has, Took
    <3>3. lost' \subseteq Jobs BY <1>1, <1>7 DEF FTTypeOK, TypeHistory
    <3>4. ~Shown(j)' BY <1>7, <2>8 DEF Shown
    <3> QED BY <1>1, <1>7, <2>4, <2>6, <2>7, <2>8, <2>9, <2>11, <2>10, <3>1,
               <3>2,
               <3>3, <3>4 DEF WriteDecided
  <2>13. v > 0 => v = n /\ Holds(j, m.k, v)
    BY <1>7, <2>2, <2>3, <2>6 DEF Skip, Unset
  <2>14. v > 0 => disk[<<j, m.k>>].digest BY <2>6, <2>13
  <2>15. ASSUME JobInv(j)
         PROVE  \/ m.k > At(j) /\ v <= 0
                \/ /\ m.k = At(j) /\ ~Open(j)
                   /\ v > 0 => Holds(j, m.k, v)
                   /\ v = 0 => Empty(j, m.k)
    <3>1. /\ m.k > At(j) => n = 0
          /\ m.k # At(j) => m.k > At(j)
          /\ m.k = At(j) => ~Open(j)
          /\ m.k = At(j) /\ n = 0 => Empty(j, m.k)
      BY <1>5, <2>6, <2>7, <2>8, <2>15
    <3>2. v = 0 => n = 0 BY <1>7, <2>3
    <3>3. n = 0 => v <= 0 BY <2>4, <2>13
    <3> QED BY <2>13, <3>1, <3>2, <3>3
  <2> QED BY <2>12, <2>14, <2>15, WriteDecidedStep
<1>8. ASSUME Head(s2c).j \in DOMAIN wjob, wjob[Head(s2c).j].listed,
             ClientTakes(<<>>), UNCHANGED <<wjob, dialog, kept, lost>>,
             faulted' = faulted \cup {<<Head(s2c).j, Head(s2c).k>>}
      PROVE  Inv'
  <2>1. PICK m, j : /\ ClientTook(m, j, <<>>) /\ m.t = "digest"
                    /\ j \in DOMAIN wjob
                    /\ wjob[j].listed /\ faulted' = faulted \cup {<<j, m.k>>}
    BY <1>1, <1>8, ClientTake
  <2>2. /\ j \in Jobs /\ up /\ Took(s2c, s2c', j, m) /\ c2s' = c2s
        /\ IsFile(j, m.k)
        /\ Data(j) = s2c /\ Data(j)' = s2c' /\ Back(j) = c2s /\ Back(j)' = c2s'
        /\ c2s' \in Seq(Messages) /\ s2c' \in Seq(Messages)
        /\ \A i : i # j => SameQueue(c2s, c2s', i) /\ SameQueue(s2c, s2c', i)
    BY <1>2, <2>1
  <2>3. ~Has(c2s, j, {"ask", "confirm"}) /\ ~Shown(j) BY <1>3, <2>1
  <2> QED BY <1>1, <1>8, <2>1, <2>2, <2>3, UnansweredStep
<1>9. PICK j, k, n, v :
         /\ j = Head(s2c).j /\ k = Head(s2c).k
         /\ n = Transferred(j, k, wjob[j].resume)
         /\ v = IF ~NeedConfirm(j, k, wjob[j].resume) THEN 0
                ELSE IF n > 0 THEN n ELSE wjob[j].strategy
  OBVIOUS
<1>10. \/ v = 0 /\ ~(n > 0)
       \/ v = n /\ n > 0
       \/ v = wjob[j].strategy /\ ~(n > 0)
  BY <1>9 DEF NeedConfirm
<1>11. CASE /\ j \in DOMAIN wjob /\ wjob[j].listed /\ v # Unset
            /\ \E o \in Seeks(wjob[j], k, v) :
                  /\ wjob' = [wjob EXCEPT ![j] = ConfirmWrite(@, k, o)]
                  /\ Sought(j, k, v, o)
            /\ ClientTakes(<<Msg("confirm", j, k, v)>>)
            /\ Decide(j, k, v) /\ UNCHANGED <<dialog, lost>>
  <2>1. PICK o \in Seeks(wjob[j], k, v) :
           /\ wjob' = [wjob EXCEPT ![j] = ConfirmWrite(@, k, o)]
           /\ Sought(j, k, v, o)
    BY <1>11
  <2> QED BY <1>7, <1>9, <1>10, <1>11, <2>1
<1>12. CASE /\ j \in DOMAIN wjob /\ wjob[j].listed /\ v = Unset
            /\ Ask(j, k) /\ ClientTakes(<<>>) /\ UNCHANGED <<wjob, kept,
                                          faulted>>
  <2>1. ~(n > 0) BY <1>10, <1>12 DEF Unset
  <2> QED BY <1>6, <1>9, <1>12, <2>1
<1> QED BY <1>4, <1>9, <1>11, <1>12, <1>8 DEF OnDigest

-----------------------------------------------------------------------------
(* The user's answer. *)

\* A step that does nothing to any job.
LEMMA AllFrame ==
    ASSUME Inv, sc' = sc, FTTypeOK', LifeDown', \A i \in Jobs : Frame(i)
    PROVE  Inv'
<1>1. Jobs' = Jobs BY DEF Jobs
<1>2. ASSUME NEW i \in Jobs
      PROVE  Life(i)' /\ Tokens(i)' /\ Parts(i)' /\ (Sane' => JobInv(i)')
  <2>1. Frame(i) OBVIOUS
  <2>2. /\ \A m \in Sent(Back(i), i) : m.t = "ask" => IsFile(i, m.k)
        /\ \A m \in Sent(Data(i), i) : m.t = "confirm" => IsFile(i, m.k)
    BY DEF Inv, FTTypeOK, TypeQueues, DataOK, BackOK
  <2>3. Life(i) /\ Tokens(i) /\ Parts(i) /\ (Sane => JobInv(i)) BY DEF Inv
  <2> QED BY <2>1, <2>2, <2>3, FrameJob
<1> QED BY <1>1, <1>2 DEF Inv

\* Nothing happens.
LEMMA StutterStep ==
    ASSUME Inv, UNCHANGED ftVars
    PROVE  Inv'
<1>1. /\ UNCHANGED <<sc, up, breaks, rjob, wjob, reads, disk, c2s, s2c, dialog,
                     saved, state, from, kept, lost, faulted>>
      /\ FTTypeOK /\ LifeDown
  BY DEF ftVars, Inv
<1>2. FTTypeOK'
  <2>1. TypeJobs' BY <1>1 DEF FTTypeOK, TypeJobs, Jobs
  <2>2. TypeQueues'
    BY <1>1 DEF FTTypeOK, TypeQueues, Jobs, Messages, Data, Back, Sent, DataOK,
                BackOK, IsFile, Size
  <2> QED BY <1>1, <2>1, <2>2, UserSame, HistorySame, FilesSame, ReadsSame
          DEF FTTypeOK
<1>3. LifeDown' BY <1>1 DEF LifeDown, Jobs
<1>4. \A i \in Jobs : Frame(i) BY <1>1, SameRefl DEF Frame, Shown
<1> QED BY <1>1, <1>2, <1>3, <1>4, AllFrame

\* The default answer of a job changes nothing else of it.
LEMMA RememberRead ==
    ASSUME NEW r \in ReadJobs, NEW v \in {0, Skip}, NEW s,
           s = [r EXCEPT !.strategy = v] \/ s = r
    PROVE  /\ s \in ReadJobs /\ SameRead(r, s)
           /\ s.file_num = r.file_num /\ s.pos = r.pos
           /\ s.confirmed = r.confirmed /\ s.waiting = r.waiting
  BY DEF ReadJobs, SameRead

\* The same for a job that writes.
LEMMA RememberWrite ==
    ASSUME NEW w \in WriteJobs, NEW v \in {0, Skip}, NEW s,
           s = [w EXCEPT !.strategy = v] \/ s = w
    PROVE  /\ s \in WriteJobs /\ s.resume = w.resume /\ s.listed = w.listed
           /\ s.file_num = w.file_num /\ s.open = w.open /\ s.on = w.on
  BY DEF WriteJobs

\* Data::SetConfirmOverrideFile.
LEMMA SetConfirmStep ==
    ASSUME Inv, NEW v \in {0, Skip}, NEW remember \in BOOLEAN,
           SetConfirmOverrideFile(v, remember)
    PROVE  Inv'
<1>1. /\ FTTypeOK /\ up /\ dialog # None /\ dialog' = None
      /\ UNCHANGED <<sc, up, breaks, reads, disk, s2c, saved, state, from, lost,
                     faulted>>
  BY DEF Inv, SetConfirmOverrideFile
<1>2. PICK j, k : j = dialog[1] /\ k = dialog[2] OBVIOUS
<1>3. /\ j \in Jobs /\ IsFile(j, k) /\ k \in DOMAIN sc.files[j] /\ sc.od
      /\ Shown(j)
      /\ k \in Nat /\ sc \in Scenarios /\ sc.upload[j] \in BOOLEAN
  <2>1. dialog \in Files /\ IsFile(j, k) /\ sc.od /\ sc \in Scenarios
    BY <1>1, <1>2 DEF FTTypeOK, TypeUser
  <2>2. j \in Jobs BY <1>2, <2>1, FileIs
  <2> QED BY <1>1, <1>2, <2>1, <2>2, Scenario DEF Shown, IsFile
<1>4. Life(j) /\ Tokens(j) /\ Parts(j) /\ (Sane => JobInv(j)) BY <1>3 DEF Inv
<1>5. /\ state[j] \notin {"new", "saved", "gone", "added"}
      /\ ~Has(c2s, j, {"send", "receive"})
  BY <1>3, <1>4 DEF Life, LifeIdle, LifeStart, Has
<1>6. v \in Nat \cup {Skip} /\ v \in Int /\ v <= 0 /\ ~(v > 0) BY DEF Skip
<1>7. j \in DOMAIN rjob =>
         /\ WaitsFor(j, k) /\ Clear(Data(j), j) /\ ~Has(Data(j), j, {"digest"})
         /\ ~Has(Back(j), j, {"ask", "confirm"})
         /\ JobInv(j) /\ Live(j) => k > At(j) \/ (k = At(j) /\ ~Open(j) /\ Empty(j, k))
  BY <1>2, <1>3, <1>4 DEF Tokens, JobInv, Answers, ShownOK
<1>8. ASSUME UNCHANGED <<rjob, wjob, c2s, kept>> PROVE Inv'
  <2>1. FTTypeOK'
    <3>1. TypeUser' BY <1>1 DEF FTTypeOK, TypeUser, Jobs, Files, IsFile, Size
    <3>2. TypeJobs' BY <1>1, <1>8 DEF FTTypeOK, TypeJobs, Jobs
    <3>3. TypeQueues'
      BY <1>1, <1>8
      DEF FTTypeOK, TypeQueues, Jobs, Messages, Data, Back, Sent, DataOK,
                  BackOK, IsFile, Size
    <3> QED BY <1>1, <1>8, <3>1, <3>2, <3>3, HistorySame, FilesSame, ReadsSame
            DEF FTTypeOK
  <2>2. \A i \in Jobs : Frame(i) BY <1>1, <1>8, SameRefl DEF Frame, Shown
  <2> QED BY <1>1, <2>1, <2>2, AllFrame DEF LifeDown
<1>9. ASSUME NEW s, s = [rjob[j] EXCEPT !.strategy = v] \/ s = rjob[j],
             j \in DOMAIN rjob, sc.upload[j], Decide(j, k, v),
             rjob' = [rjob EXCEPT ![j] = ConfirmRead(s, k, v)],
             UNCHANGED <<wjob, c2s>>
      PROVE  Inv'
  <2>1. rjob[j] \in ReadJobs BY <1>1, <1>9 DEF FTTypeOK, TypeJobs
  <2>2. /\ s \in ReadJobs /\ SameRead(rjob[j], s)
        /\ s.file_num = rjob[j].file_num /\ s.pos = rjob[j].pos
        /\ s.confirmed = rjob[j].confirmed /\ s.waiting = rjob[j].waiting
    BY <1>9, <2>1, RememberRead
  <2>3. LET t == ConfirmRead(s, k, v) IN
        /\ t \in ReadJobs /\ SameRead(s, t) /\ t.strategy = s.strategy
        /\ s.file_num # k => t = s
        /\ s.file_num = k /\ v = Skip =>
              /\ t.file_num = k + 1 /\ t.pos = 0 /\ ~t.confirmed /\ ~t.waiting
              /\ t.skipped
        /\ s.file_num = k /\ v # Skip =>
              /\ t.file_num = k /\ t.pos = (IF v > 0 THEN v + 1 ELSE s.pos)
              /\ t.confirmed /\ t.waiting = s.waiting /\ ~t.skipped
    <3>1. s \in ReadJobs /\ k \in Nat BY <1>3, <2>2
    <3>2. ReadAfter(s, k, v, ConfirmRead(s, k, v)) BY <1>6, <3>1, ConfirmReadIs
    <3> QED BY <3>2 DEF ReadAfter
  <2>4. /\ DOMAIN rjob' = DOMAIN rjob
        /\ \A i \in DOMAIN rjob : i # j => rjob'[i] = rjob[i]
        /\ rjob'[j] = ConfirmRead(s, k, v)
    BY <1>9
  <2>5. /\ rjob'[j] \in ReadJobs /\ SameRead(rjob[j], rjob'[j])
        /\ v = Skip => /\ rjob'[j].file_num = k + 1 /\ rjob'[j].pos = 0
                       /\ ~rjob'[j].confirmed /\ ~rjob'[j].waiting
        /\ v # Skip => /\ rjob'[j].file_num = k /\ rjob'[j].confirmed
                       /\ rjob'[j].waiting /\ ~rjob'[j].skipped
                       /\ rjob'[j].pos = IF v > 0 THEN v + 1 ELSE 1
    BY <1>7, <1>9, <2>2, <2>3, <2>4 DEF WaitsFor, SameRead
  <2>6. /\ Data(j)' = Data(j) /\ Back(j)' = Back(j) BY <1>1, <1>9 DEF Data, Back
  <2>7. ReadDecided(j, k, v, 0)
    <3>1. Less(Back(j), Back(j)', j) BY <2>6, LessIs
    <3>2. /\ kept' \subseteq kept \cup {<<j, k>>}
          /\ kept \subseteq kept' \cup {<<j, k>>}
      BY <1>9 DEF Decide
    <3>3. /\ lost' \subseteq Jobs /\ c2s' \in Seq(Messages)
          /\ s2c' \in Seq(Messages)
      BY <1>1, <1>9 DEF FTTypeOK, TypeHistory, TypeQueues
    <3>4. \A i : ~Shown(i)' BY <1>1 DEF Shown
    <3>5. \A i : SameQueue(c2s, c2s', i) /\ SameQueue(s2c, s2c', i)
      BY <1>1, <1>9, SameRefl
    <3> QED BY <1>1, <1>3, <1>6, <1>7, <1>9, <2>4, <2>5, <2>6, <3>1, <3>2,
               <3>3, <3>4,
               <3>5 DEF ReadDecided, MayFail
  <2>8. ~Has(Back(j), j, {"confirm"}) BY <1>7, <1>9 DEF Has
  <2>9. JobInv(j) /\ Live(j) =>
               \/ k > At(j) /\ v <= 0
               \/ /\ k = At(j) /\ ~Open(j)
                  /\ IF v > 0 THEN Holds(j, k, v) ELSE Empty(j, k)
    BY <1>6, <1>7, <1>9
  <2> QED BY <1>6, <1>9, <2>7, <2>8, <2>9, UploadDecided
<1>10. ASSUME NEW s, s = [wjob[j] EXCEPT !.strategy = v] \/ s = wjob[j],
              j \in DOMAIN wjob, ~sc.upload[j], Decide(j, k, v),
              wjob' = [wjob EXCEPT ![j] = ConfirmWrite(s, k, v)],
              c2s' = Append(c2s, Msg("confirm", j, k, v)), rjob' = rjob
       PROVE  Inv'
  <2>1. wjob[j] \in WriteJobs BY <1>1, <1>10 DEF FTTypeOK, TypeJobs
  <2>2. /\ s \in WriteJobs /\ s.resume = wjob[j].resume
        /\ s.listed = wjob[j].listed
        /\ s.file_num = wjob[j].file_num /\ s.open = wjob[j].open
        /\ s.on = wjob[j].on
    BY <1>10, <2>1, RememberWrite
  <2>3. LET t == ConfirmWrite(s, k, v) IN
         /\ t \in WriteJobs /\ t.last = s.last /\ t.resume = s.resume
         /\ t.strategy = s.strategy /\ t.listed = s.listed
         /\ s.file_num # k => t = s
         /\ s.file_num = k /\ v = Skip =>
               t.file_num = k + 1 /\ ~t.open
         /\ s.file_num = k /\ v # Skip =>
               t.file_num = k /\ t.open = s.open /\ t.on = s.on
    <3>1. s \in WriteJobs /\ k \in Nat BY <1>3, <2>2
    <3>2. WriteAfter(s, k, v, ConfirmWrite(s, k, v))
      BY <1>6, <3>1, ConfirmWriteIs
    <3> QED BY <1>6, <3>2 DEF WriteAfter
  <2>4. /\ DOMAIN wjob' = DOMAIN wjob
        /\ \A i \in DOMAIN wjob : i # j => wjob'[i] = wjob[i]
        /\ wjob'[j] = ConfirmWrite(s, k, v)
    BY <1>10
  <2>5. PICK x : /\ x \in Messages /\ x.t = "confirm" /\ x.k = k /\ x.v = v
                 /\ x.j = j /\ c2s' = Append(c2s, x)
    <3>1. "confirm" \in Kinds BY DEF Kinds
    <3> QED BY <1>3, <1>6, <1>10, <3>1, MsgIs
  <2>6. /\ Gave(c2s, c2s', j, x) /\ c2s' \in Seq(Messages)
        /\ s2c' \in Seq(Messages)
        /\ \A i : i # j => SameQueue(c2s, c2s', i) /\ SameQueue(s2c, s2c', i)
    BY <1>1, <2>5, AddStep, SameRefl DEF FTTypeOK, TypeQueues
  <2>7. j \in DOMAIN rjob BY <1>3, <1>4, <1>10 DEF Life, LifeEnd
  <2>8. Data(j) = s2c /\ Back(j) = c2s BY <1>10 DEF Data, Back
  <2>9. WriteDecided(j, k, v, x)
    <3>1. Less(s2c, s2c', j) /\ SameItems(s2c, s2c', j)
      BY <1>1, LessIs, SameRefl DEF SameQueue
    <3>2. lost' \subseteq Jobs BY <1>1 DEF FTTypeOK, TypeHistory
    <3>3. \A i : ~Shown(i)' BY <1>1 DEF Shown
    <3>4. /\ wjob'[j] \in WriteJobs /\ wjob'[j].resume = wjob[j].resume
          /\ wjob'[j].listed = wjob[j].listed
          /\ wjob[j].file_num # k => /\ wjob'[j].file_num = wjob[j].file_num
                                     /\ wjob'[j].open = wjob[j].open
                                     /\ wjob'[j].on = wjob[j].on
          /\ wjob[j].file_num = k /\ v = Skip =>
                wjob'[j].file_num = k + 1 /\ ~wjob'[j].open
          /\ wjob[j].file_num = k /\ v # Skip =>
                /\ wjob'[j].file_num = k
                /\ wjob'[j].open = wjob[j].open /\ wjob'[j].on = wjob[j].on
      BY <2>2, <2>3, <2>4
    <3>5. /\ WaitsFor(j, k) /\ Clear(s2c, j) /\ ~Has(s2c, j, {"digest"})
          /\ ~Has(c2s, j, {"ask", "confirm"})
      BY <1>7, <2>7, <2>8
    <3> QED BY <1>1, <1>3, <1>5, <1>6, <1>10, <2>4, <2>5, <2>6, <2>7, <3>1,
               <3>2, <3>3,
               <3>4, <3>5 DEF WriteDecided, MayFail
  <2>10. ASSUME JobInv(j)
         PROVE  \/ k > At(j) /\ v <= 0
                \/ /\ k = At(j) /\ ~Open(j)
                   /\ v > 0 => Holds(j, k, v)
                   /\ v = 0 => Empty(j, k)
    <3>1. Live(j) BY <1>10 DEF Live
    <3> QED BY <1>6, <1>7, <2>7, <2>10, <3>1
  <2> QED BY <1>6, <2>9, <2>10, WriteDecidedStep
<1>11. PICK s : s = LET jobs == IF sc.upload[j] THEN rjob ELSE wjob IN
                    IF remember THEN [jobs[j] EXCEPT !.strategy = v] ELSE jobs[j]
  OBVIOUS
<1>12. \/ UNCHANGED <<rjob, wjob, c2s, kept>>
       \/ /\ j \in DOMAIN rjob /\ sc.upload[j] /\ Decide(j, k, v)
          /\ rjob' = [rjob EXCEPT ![j] = ConfirmRead(s, k, v)]
          /\ UNCHANGED <<wjob, c2s>>
       \/ /\ j \in DOMAIN wjob /\ ~sc.upload[j] /\ Decide(j, k, v)
          /\ wjob' = [wjob EXCEPT ![j] = ConfirmWrite(s, k, v)]
          /\ c2s' = Append(c2s, Msg("confirm", j, k, v)) /\ rjob' = rjob
  BY <1>2, <1>11 DEF SetConfirmOverrideFile
<1>13. /\ sc.upload[j] => s = [rjob[j] EXCEPT !.strategy = v] \/ s = rjob[j]
       /\ ~sc.upload[j] => s = [wjob[j] EXCEPT !.strategy = v] \/ s = wjob[j]
  BY <1>11
<1> QED BY <1>8, <1>9, <1>10, <1>12, <1>13

-----------------------------------------------------------------------------
(* The answer, at the side that reads. *)

\* FileAction::SendConfirm of a download: the server's own job.
LEMMA OnConfirmReadStep ==
    ASSUME Inv, NEW m, NEW j, ServerTook(m, j, <<>>), m.t = "confirm",
           ~sc.upload[j],
           j \in DOMAIN rjob, NEW o \in Seeks(rjob[j], m.k, m.v),
           rjob' = [rjob EXCEPT ![j] = ConfirmRead(@, m.k, o)],
           Sought(j, m.k, m.v, o),
           UNCHANGED <<sc, up, breaks, wjob, reads, disk, dialog, saved, state,
                       from, kept, lost>>
    PROVE  Inv'
<1>1. /\ FTTypeOK /\ j \in Jobs /\ m \in Sent(c2s, j) /\ up /\ m \in Messages
      /\ Took(c2s, c2s', j, m) /\ s2c' = s2c /\ BackOK(j, m)
      /\ \A i : i # j => SameQueue(c2s, c2s', i) /\ SameQueue(s2c, s2c', i)
      /\ c2s' \in Seq(Messages) /\ s2c' \in Seq(Messages)
      /\ Life(j) /\ Tokens(j) /\ Parts(j)
  BY DEF ServerTook, Inv
<1>2. Data(j) = s2c /\ Data(j)' = s2c' /\ Back(j) = c2s /\ Back(j)' = c2s'
  BY DEF Data, Back
<1>3. PICK k, v : k = m.k /\ v = m.v OBVIOUS
<1>4. k \in Nat /\ v \in Nat \cup {Skip} /\ IsFile(j, k) /\ sc.od /\ v \in Int
  BY <1>1, <1>3, MessageIs DEF BackOK
<1>5. /\ WaitsFor(j, k) /\ Clear(s2c, j) /\ ~Has(s2c, j, {"digest"})
      /\ ~Has(c2s', j, {"ask", "confirm"}) /\ ~Shown(j)
  BY <1>1, <1>2, <1>3 DEF Tokens, Has, Took
<1>6. /\ DOMAIN rjob' = DOMAIN rjob
      /\ \A i \in DOMAIN rjob : i # j => rjob'[i] = rjob[i]
      /\ rjob'[j] = ConfirmRead(rjob[j], k, o)
  BY <1>3
<1>7. /\ MayFail(j, k, v) /\ o \in Nat \cup {Skip}
      /\ o = v \/ (o = 0 /\ v > 0 /\ <<j, k>> \in faulted')
  BY <1>3, <1>4, SoughtIs
<1>8. /\ rjob'[j] \in ReadJobs /\ SameRead(rjob[j], rjob'[j])
      /\ v = Skip => /\ rjob'[j].file_num = k + 1 /\ rjob'[j].pos = 0
                     /\ ~rjob'[j].confirmed /\ ~rjob'[j].waiting
      /\ v # Skip => /\ rjob'[j].file_num = k /\ rjob'[j].confirmed
                     /\ rjob'[j].waiting /\ ~rjob'[j].skipped
                     /\ \/ rjob'[j].pos = IF v > 0 THEN v + 1 ELSE 1
                        \/ rjob'[j].pos = 1 /\ <<j, k>> \in faulted'
  <2>1. rjob[j] \in ReadJobs BY <1>1 DEF FTTypeOK, TypeJobs
  <2>2. LET s == ConfirmRead(rjob[j], k, o) IN
        /\ s \in ReadJobs /\ SameRead(rjob[j], s)
        /\ s.strategy = rjob[j].strategy
        /\ rjob[j].file_num # k => s = rjob[j]
        /\ rjob[j].file_num = k /\ o = Skip =>
              /\ s.file_num = k + 1 /\ s.pos = 0 /\ ~s.confirmed /\ ~s.waiting
              /\ s.skipped
        /\ rjob[j].file_num = k /\ o # Skip =>
              /\ s.file_num = k
              /\ s.pos = (IF o > 0 THEN o + 1 ELSE rjob[j].pos)
              /\ s.confirmed /\ s.waiting = rjob[j].waiting /\ ~s.skipped
    <3>1. ReadAfter(rjob[j], k, o, ConfirmRead(rjob[j], k, o))
      BY <1>4, <1>7, <2>1, ConfirmReadIs
    <3> QED BY <3>1 DEF ReadAfter
  <2>3. rjob[j].file_num = k /\ rjob[j].pos = 1 /\ rjob[j].waiting
    BY <1>5 DEF WaitsFor
  <2> HIDE DEF ConfirmRead
  <2>4. CASE o = v BY <1>4, <1>6, <2>2, <2>3, <2>4
  <2>5. CASE o = 0 /\ v > 0 /\ <<j, k>> \in faulted'
    <3>1. o # Skip /\ v # Skip /\ ~(o > 0) BY <1>4, <2>5 DEF Skip
    <3>2. rjob'[j].pos = rjob[j].pos BY <1>6, <2>2, <2>3, <3>1
    <3> QED BY <1>6, <2>2, <2>3, <2>5, <3>1, <3>2
  <2> QED BY <1>7, <2>4, <2>5
<1>9. ReadDecided(j, k, v, 0)
  <2>1. Less(c2s, c2s', j) BY <1>1, LessIs
  <2>2. /\ Has(c2s, j, {"cancel"}) => Has(c2s', j, {"cancel"})
        /\ Has(c2s, j, {"send"}) => Has(c2s', j, {"send"})
    BY <1>1 DEF Has, Took
  <2>3. lost' \subseteq Jobs BY <1>1 DEF FTTypeOK, TypeHistory
  <2>4. ~Shown(j)' BY <1>5 DEF Shown
  <2> QED BY <1>1, <1>2, <1>4, <1>5, <1>6, <1>8, <1>7, <2>1, <2>2, <2>3, <2>4
          DEF ReadDecided
<1>10. /\ Live(j)' <=> Live(j)
       /\ At(j)' = At(j) /\ (Open(j)' <=> Open(j))
  BY <1>1, <1>2, <1>9, ReadDecidedLife
<1>11. SameDisk(j) /\ SameFacts(j)
  BY <1>7, SameDiskFacts DEF SameDisk, MayFail
<1>12. ASSUME JobInv(j)
       PROVE  /\ <<j, k>> \in kept' <=> v = Skip
              /\ v # Skip => kept' = kept
              /\ v = Skip /\ <<j, k>> \notin faulted =>
                    /\ Orig(<<j, k>>)
                    /\ Live(j) /\ k >= At(j) /\ (sc.upload[j] \/ breaks = 0)
                          => disk[<<j, k>>].part = None
              /\ v = Skip => ~Open(j) \/ (At(j) # k /\ wjob[j].on # k)
              /\ Live(j) /\ (v <= 0 \/ Data(j)' = Data(j)) => NoneOK(j)'
              /\ Live(j) /\ v > 0 /\ Data(j)' # Data(j) => StartOK(j, 0)
  <2>1. <<j, k>> \in kept <=> v = Skip
    BY <1>1, <1>2, <1>3, <1>12 DEF JobInv, Answers
  <2>2. k \in DOMAIN sc.files[j] BY <1>4 DEF IsFile
  <2>3. v = Skip /\ <<j, k>> \notin faulted =>
           /\ Orig(<<j, k>>)
           /\ Live(j) /\ k >= At(j) /\ (sc.upload[j] \/ breaks = 0)
                 => disk[<<j, k>>].part = None
    BY <1>12, <2>1, <2>2 DEF JobInv, Keeps
  <2>4. v = Skip => ~Open(j) \/ (At(j) # k /\ wjob[j].on # k)
    BY <1>12, <2>1 DEF JobInv, Keeps
  <2>5. ASSUME Live(j) PROVE NoneOK(j)'
    <3>1. NoneOK(j) BY <1>2, <1>5, <1>12, <2>5 DEF JobInv, Chain
    <3>2. ConfirmOK(j, m) BY <1>1, <1>2, <1>12, <2>5 DEF JobInv, Answers
    <3>3. At(j) \in Int BY <1>1, WriteIs DEF At, FTTypeOK, TypeUser, TypeJobs
    <3>4. /\ ~Go(j) /\ rjob[j].file_num = k /\ (Go(j)' <=> v # Skip)
      BY <1>4, <1>5, <1>8 DEF Go, WaitsFor
    <3>5. CASE v = Skip
      <4>1. CASE k > At(j)
        <5>1. Passed(j, At(j)) /\ Gap(j, At(j), k)
          BY <1>4, <3>1, <3>3, <3>4, <4>1 DEF NoneOK
        <5>2. Gap(j, At(j), k + 1)
          <6>1. \A n \in DOMAIN sc.files[j] : n \in Nat
            BY <1>1, Scenario DEF FTTypeOK, TypeUser
          <6>2. ASSUME NEW n \in DOMAIN sc.files[j], At(j) < n, n < k + 1
                PROVE  <<j, n>> \in kept \cup faulted
            BY <1>4, <2>1, <3>5, <5>1, <6>1, <6>2 DEF Gap
          <6> QED BY <6>2 DEF Gap
        <5> QED BY <1>4, <1>8, <1>10, <1>11, <3>3, <3>5, <4>1, <5>1, <5>2
                DEF NoneOK, SameFacts
      <4>2. CASE k + 1 = At(j)
        <5>1. ~Open(j) BY <1>4, <3>1, <3>4, <4>2 DEF NoneOK
        <5> QED BY <1>8, <1>10, <3>4, <3>5, <4>2, <5>1 DEF NoneOK
      <4> QED BY <1>3, <1>4, <3>2, <3>3, <3>5, <4>1, <4>2 DEF ConfirmOK
    <3>6. CASE v # Skip
      <4>1. CASE k > At(j) /\ v = 0
        <5>1. Passed(j, At(j)) /\ Gap(j, At(j), k)
          BY <1>4, <3>1, <3>3, <3>4, <4>1 DEF NoneOK
        <5> QED BY <1>4, <1>8, <1>10, <1>11, <3>3, <3>6, <4>1, <5>1
                DEF NoneOK, SameFacts
      <4>2. CASE k = At(j) /\ v = 0 /\ ~Open(j) /\ Blank(j, k)
        BY <1>4, <1>8, <1>10, <1>11, <3>3, <3>6, <4>2 DEF NoneOK, SameFacts
      <4>3. CASE /\ k = At(j) /\ v > 0 /\ Open(j) /\ Holds(j, k, v)
                 /\ rjob'[j].pos = v + 1
        <5>1. Received(j, k, v) BY <1>4, <4>3 DEF Received, Holds
        <5>2. rjob'[j].pos = v + 1 /\ rjob'[j].file_num = k BY <1>8, <3>6, <4>3
        <5>3. Received(j, k, v)' /\ v + 1 > 1 /\ v + 1 - 1 = v
          BY <1>4, <1>11, <4>3, <5>1 DEF SameFacts
        <5>4. PICK r : r = rjob'[j] OBVIOUS
        <5>5. r.pos - 1 = v /\ r.pos > 1 /\ r.file_num = k
          BY <1>4, <4>3, <5>2, <5>4
        <5>6. r.file_num = At(j)' /\ Open(j)' /\ Go(j)' /\ r.pos > 1
              /\ Received(j, k, v)'
          BY <1>10, <3>4, <3>6, <4>3, <5>3, <5>5
        <5>7. Received(j, r.file_num, r.pos - 1)' BY <5>5, <5>6
        <5> QED BY <5>4, <5>6, <5>7 DEF NoneOK
      <4>4. CASE k = At(j) /\ v > 0 /\ <<j, k>> \in faulted'
        <5>1. <<j, k>> \notin kept' BY <1>4, <2>1, <4>4 DEF Skip
        <5>2. /\ At(j)' = k /\ rjob'[j].file_num = k /\ Go(j)'
              /\ rjob'[j].pos > 0
              /\ rjob'[j].pos \in Int
          BY <1>4, <1>8, <1>10, <3>4, <3>6, <4>4
        <5>3. CASE Open(j)
          <6>1. IsFile(j, k)' BY <1>4, <1>11 DEF IsFile, SameFacts, SameDisk
          <6>2. PICK r : r = rjob'[j] OBVIOUS
          <6>3. r.file_num = At(j)' /\ Open(j)' /\ Go(j)' /\ r.pos > 0
            BY <1>10, <5>2, <5>3, <6>2
          <6>4. Received(j, r.file_num, r.pos - 1)' /\ <<j, r.file_num>> \in faulted'
            BY <4>4, <5>2, <6>1, <6>2 DEF Received
          <6> QED BY <6>2, <6>3, <6>4 DEF NoneOK
        <5>4. CASE ~Open(j)
          <6>1. Blank(j, k)' BY <4>4, <5>1 DEF Blank, Empty
          <6> QED BY <1>10, <4>4, <5>2, <5>4, <6>1 DEF NoneOK
        <5> QED BY <5>3, <5>4
      <4>5. <<j, k>> \in faulted => <<j, k>> \in faulted' BY <1>7 DEF MayFail
      <4>6. v > 0 => rjob'[j].pos = v + 1 \/ <<j, k>> \in faulted'
        BY <1>8, <3>6
      <4> QED BY <1>3, <1>4, <3>2, <3>6, <4>1, <4>2, <4>3, <4>4, <4>5, <4>6
              DEF ConfirmOK
    <3> QED BY <3>5, <3>6
  <2> QED BY <1>1, <1>2, <2>1, <2>3, <2>4, <2>5
<1> QED BY <1>1, <1>2, <1>9, <1>12, ReadDecidedStep

-----------------------------------------------------------------------------
(* The answer, at the side that writes. *)

\* FileAction::SendConfirm of an upload, passed on to the job that writes.
ConfirmTaken(m, j, k, v) ==
    /\ ServerTook(m, j, <<>>) /\ m.t = "confirm" /\ m.k = k /\ m.v = v
    /\ sc.upload[j] /\ j \in DOMAIN wjob
    /\ \E o \in Seeks(wjob[j], k, v) :
          /\ wjob' = [wjob EXCEPT ![j] = ConfirmWrite(@, k, o)]
          /\ Sought(j, k, v, o)
    /\ UNCHANGED <<sc, up, breaks, rjob, reads, disk, dialog, saved, state,
                   from, kept, lost>>

\* What is then known of the job, whatever was decided.
LEMMA ConfirmTakenLife ==
    ASSUME Inv, NEW m, NEW j, NEW k, NEW v, ConfirmTaken(m, j, k, v)
    PROVE  /\ j \in Jobs /\ sc \in Scenarios /\ k \in Nat /\ IsFile(j, k)
           /\ v \in Int /\ v >= Skip
           /\ sc' = sc /\ up /\ sc.od /\ m \in Sent(c2s, j)
           /\ Data(j) = c2s /\ Data(j)' = c2s' /\ Back(j) = s2c
           /\ Back(j)' = s2c
           /\ s2c' = s2c /\ Took(c2s, c2s', j, m) /\ Less(c2s, c2s', j)
           /\ Live(j) /\ Live(j)' /\ j \in DOMAIN wjob'
           /\ At(j) \in Nat /\ wjob'[j].resume = wjob[j].resume
           /\ At(j) # k \/ v = 0 =>
                 /\ At(j)' = At(j) /\ (Open(j)' <=> Open(j))
                 /\ faulted' = faulted
                 /\ wjob'[j].on = wjob[j].on
           /\ At(j) = k /\ v = Skip =>
                 At(j)' = k + 1 /\ ~Open(j)' /\ faulted' = faulted
           /\ At(j) = k /\ v > 0 =>
                 /\ At(j)' = k
                 /\ \/ Open(j)' /\ wjob'[j].on = k
                    \/ /\ Open(j)' <=> Open(j)
                       /\ wjob'[j].on = wjob[j].on /\ <<j, k>> \in faulted'
           /\ MayFail(j, k, v)
           /\ state[j] \notin {"new", "saved", "gone", "added", "done"}
           /\ ~Has(c2s', j, {"send"})
           /\ Has(c2s', j, {"cancel"}) <=> Has(c2s, j, {"cancel"})
           /\ FTTypeOK' /\ Life(j)' /\ Tokens(j)' /\ Parts(j)'
           /\ \A i \in Jobs \ {j} : Frame(i)
           /\ Shown(j)' <=> Shown(j)
<1>1. /\ FTTypeOK /\ j \in Jobs /\ m \in Sent(c2s, j) /\ up /\ m \in Messages
      /\ Took(c2s, c2s', j, m) /\ s2c' = s2c /\ DataOK(j, m) /\ sc' = sc
      /\ \A i : i # j => SameQueue(c2s, c2s', i) /\ SameQueue(s2c, s2c', i)
      /\ c2s' \in Seq(Messages) /\ s2c' \in Seq(Messages)
      /\ Life(j) /\ Tokens(j) /\ Parts(j) /\ sc \in Scenarios
      /\ m.t = "confirm" /\ m.k = k /\ m.v = v /\ sc.upload[j]
      /\ j \in DOMAIN wjob
      /\ UNCHANGED <<sc, up, breaks, rjob, reads, disk, dialog, saved, state,
                     from, kept, lost>>
  BY DEF ConfirmTaken, ServerTook, Inv, FTTypeOK, TypeUser
<1>2. Data(j) = c2s /\ Data(j)' = c2s' /\ Back(j) = s2c /\ Back(j)' = s2c
  BY <1>1 DEF Data, Back
<1>3. k \in Nat /\ v \in Nat \cup {Skip} /\ IsFile(j, k) /\ sc.od /\ v \in Int
      /\ v >= Skip
  BY <1>1, MessageIs DEF DataOK, Skip
<1>4. PICK o \in Seeks(wjob[j], k, v) :
         /\ wjob' = [wjob EXCEPT ![j] = ConfirmWrite(@, k, o)]
         /\ Sought(j, k, v, o)
  BY DEF ConfirmTaken
<1>5. /\ DOMAIN wjob' = DOMAIN wjob
      /\ \A i \in DOMAIN wjob : i # j => wjob'[i] = wjob[i]
      /\ wjob'[j] = ConfirmWrite(wjob[j], k, o)
  BY <1>1, <1>4
<1>6. /\ MayFail(j, k, v) /\ o \in Nat \cup {Skip}
      /\ o = v \/ (o = 0 /\ v > 0 /\ <<j, k>> \in faulted')
  BY <1>3, <1>4, SoughtIs
<1>7. wjob[j].file_num # k => o = v /\ faulted' = faulted
  BY <1>4 DEF Seeks, Sought
<1>8. wjob[j] \in WriteJobs BY <1>1 DEF FTTypeOK, TypeJobs
<1>9. LET s == ConfirmWrite(wjob[j], k, o) IN
      /\ s \in WriteJobs /\ s.last = wjob[j].last /\ s.resume = wjob[j].resume
      /\ s.strategy = wjob[j].strategy /\ s.listed = wjob[j].listed
      /\ wjob[j].file_num # k => s = wjob[j]
      /\ wjob[j].file_num = k /\ v = Skip => s.file_num = k + 1 /\ ~s.open
      /\ wjob[j].file_num = k /\ v # Skip =>
            /\ s.file_num = k
            /\ \/ v > 0 /\ s.open /\ s.on = k
               \/ /\ v <= 0 \/ <<j, k>> \in faulted'
                  /\ s.open = wjob[j].open /\ s.on = wjob[j].on
  <2>1. WriteAfter(wjob[j], k, o, ConfirmWrite(wjob[j], k, o))
    BY <1>3, <1>8, <1>6, ConfirmWriteIs
  <2> HIDE DEF ConfirmWrite
  <2>2. CASE o = v
    <3>1. ~(v > 0) => v <= 0 BY <1>3
    <3> QED BY <2>1, <2>2, <3>1 DEF WriteAfter
  <2>3. CASE o = 0 /\ v > 0 /\ <<j, k>> \in faulted'
    <3>1. o # Skip /\ v # Skip /\ ~(o > 0) BY <1>3, <2>3 DEF Skip
    <3> QED BY <2>1, <2>3, <3>1 DEF WriteAfter
  <2> QED BY <1>6, <2>2, <2>3
<1>10. /\ At(j) = wjob[j].file_num /\ At(j)' = wjob'[j].file_num
       /\ (Open(j) <=> wjob[j].open) /\ (Open(j)' <=> wjob'[j].open)
       /\ At(j) \in Nat
  BY <1>1, <1>5, <1>8, WriteIs DEF At, Open
<1>11. /\ wjob'[j].resume = wjob[j].resume /\ wjob'[j].listed = wjob[j].listed
       /\ wjob'[j] \in WriteJobs
       /\ At(j) # k \/ v = 0 =>
             /\ At(j)' = At(j) /\ (Open(j)' <=> Open(j)) /\ faulted' = faulted
             /\ wjob'[j].on = wjob[j].on
       /\ At(j) = k /\ v = Skip => At(j)' = k + 1 /\ ~Open(j)' /\ faulted' = faulted
       /\ At(j) = k /\ v > 0 =>
             /\ At(j)' = k
             /\ \/ Open(j)' /\ wjob'[j].on = k
                \/ /\ Open(j)' <=> Open(j)
                   /\ wjob'[j].on = wjob[j].on /\ <<j, k>> \in faulted'
  <2>1. /\ wjob'[j].resume = wjob[j].resume /\ wjob'[j].listed = wjob[j].listed
        /\ wjob'[j] \in WriteJobs
    BY <1>5, <1>9
  <2>2. CASE wjob[j].file_num # k
    <3>1. wjob'[j] = wjob[j] BY <1>5, <1>9, <2>2
    <3> QED BY <1>10, <1>7, <2>1, <2>2, <3>1
  <2>3. CASE wjob[j].file_num = k /\ v = Skip
    <3>1. wjob'[j].file_num = k + 1 /\ ~wjob'[j].open BY <1>5, <1>9, <2>3
    <3>2. faulted' = faulted BY <1>6, <2>3 DEF MayFail, Skip
    <3> QED BY <1>10, <2>1, <2>3, <3>1, <3>2 DEF Skip
  <2>4. CASE wjob[j].file_num = k /\ v # Skip
    <3>1. /\ wjob'[j].file_num = k
          /\ \/ v > 0 /\ wjob'[j].open /\ wjob'[j].on = k
             \/ /\ v <= 0 \/ <<j, k>> \in faulted'
                /\ wjob'[j].open = wjob[j].open /\ wjob'[j].on = wjob[j].on
      BY <1>5, <1>9, <2>4
    <3>2. v = 0 => faulted' = faulted /\ ~(v > 0) BY <1>6 DEF MayFail
    <3>3. v > 0 => ~(v <= 0) BY <1>3
    <3> QED BY <1>10, <2>1, <2>4, <3>1, <3>2, <3>3 DEF Skip
  <2> QED BY <2>2, <2>3, <2>4
<1>12. /\ ~Has(c2s, j, {"send", "receive"})
       /\ ~Has(c2s', j, {"send", "receive"})
       /\ Has(c2s', j, {"cancel"}) <=> Has(c2s, j, {"cancel"})
       /\ ~Has(c2s', j, {"send"})
  BY <1>1 DEF Life, LifeStart, Took, Has
<1>13. /\ Live(j) /\ Live(j)' /\ (Shown(j)' <=> Shown(j))
       /\ state[j] \notin {"new", "saved", "gone", "added", "done"}
       /\ Less(c2s, c2s', j)
  BY <1>1, <1>5, LessIs DEF Live, Shown, Life, LifeIdle, LifeEnd
<1>14. FTTypeOK'
  <2>1. TypeJobs' BY <1>1, <1>5, <1>11, JobsStep DEF FTTypeOK, TypeJobs
  <2>2. TypeQueues' BY <1>1, <1>2, <1>13, QueuesStep DEF FTTypeOK, Less
  <2>3. TypeHistory' BY <1>1, <1>3, <1>6, HistoryFails DEF MayFail
  <2> QED BY <1>1, <2>1, <2>2, <2>3, UserSame, ReadsSame, FilesSame DEF FTTypeOK
<1>15. ASSUME NEW i \in Jobs \ {j} PROVE Frame(i)
  <2>1. \A n : <<i, n>> \in faulted' <=> <<i, n>> \in faulted
    <3>1. \A n : <<i, n>> # <<j, k>> OBVIOUS
    <3> QED BY <1>6, <3>1 DEF MayFail
  <2> QED BY <1>1, <1>5, <1>6, <2>1 DEF Frame, Shown, MayFail
<1>16. Life(j)'
  <2>1. LifeIdle(j)' BY <1>1, <1>13 DEF LifeIdle
  <2>2. LifeStart(j)'
    <3>1. wjob'[j].listed BY <1>1, <1>11 DEF Life, LifeStart
    <3> QED BY <1>1, <1>12, <1>13, <3>1 DEF Life, LifeStart, Less, Has
  <2>3. LifeEnd(j)'
    BY <1>1, <1>2, <1>12, <1>13 DEF Life, LifeEnd, Less, Has
  <2> QED BY <2>1, <2>2, <2>3 DEF Life
<1>17. Tokens(j)'
  <2>1. Clear(c2s, j) => Clear(c2s', j) BY <1>1 DEF Took, SameItems
  <2> QED BY <1>1, <1>2, <1>13, <2>1, SameTokens DEF Less
<1>18. Parts(j)'
  <2>1. OffsetFirst(c2s', j) BY <1>1, <1>2, <1>13 DEF Parts, Less
  <2>2. /\ Open(j) => /\ IsFile(j, wjob[j].on)
                      /\ IsFile(j, At(j)) /\ <<j, At(j)>> \notin faulted =>
                            wjob[j].on = At(j) /\ disk[<<j, At(j)>>].part # None
        /\ \A n \in DOMAIN sc.files[j] :
              disk[<<j, n>>].part # None =>
                  disk[<<j, n>>].digest \/ <<j, n>> \in faulted
        /\ j \in DOMAIN rjob /\ sc.od /\ <<j, rjob[j].file_num>> \in sc.undated =>
              ~rjob[j].confirmed /\ ~rjob[j].waiting
        /\ v > 0 => disk[<<j, k>>].digest
    BY <1>1, <1>2, <1>13 DEF Parts
  <2>3. /\ faulted \subseteq faulted'
        /\ \A n : IsFile(j, n)' <=> IsFile(j, n)
    BY <1>1, <1>6 DEF MayFail, IsFile, Size
  <2>4. (Open(j) => /\ IsFile(j, wjob[j].on)
                    /\ IsFile(j, At(j)) /\ <<j, At(j)>> \notin faulted =>
                          wjob[j].on = At(j) /\ disk[<<j, At(j)>>].part # None)'
    <3>1. SUFFICES ASSUME Open(j)'
          PROVE  /\ IsFile(j, wjob'[j].on)
                 /\ IsFile(j, At(j)') /\ <<j, At(j)'>> \notin faulted' =>
                       wjob'[j].on = At(j)' /\ disk[<<j, At(j)'>>].part # None
      BY <1>1 DEF IsFile, Size
    <3>2. CASE At(j) # k \/ v = 0 BY <1>11, <2>2, <2>3, <3>1, <3>2
    <3>3. CASE At(j) = k /\ v = Skip BY <1>11, <3>1, <3>3
    <3>4. CASE At(j) = k /\ v > 0
      <4>1. CASE wjob'[j].on = k
        <5>1. <<j, k>> \in Files /\ DiskOK(disk)
          BY <1>1, <1>3, Scenario DEF FTTypeOK, IsFile
        <5>2. disk[<<j, k>>].part # None BY <2>2, <3>4, <5>1, DiskAt
        <5> QED BY <1>3, <1>11, <3>4, <4>1, <5>2
      <4>2. CASE /\ Open(j)' <=> Open(j)
                 /\ wjob'[j].on = wjob[j].on /\ <<j, k>> \in faulted'
        BY <1>11, <2>2, <3>1, <3>4, <4>2
      <4> QED BY <1>11, <3>4, <4>1, <4>2
    <3> QED BY <1>3, <3>2, <3>3, <3>4
  <2>5. (\A n \in DOMAIN sc.files[j] :
            disk[<<j, n>>].part # None =>
                disk[<<j, n>>].digest \/ <<j, n>> \in faulted)'
    BY <1>1, <2>2, <2>3
  <2>6. (\A y \in Sent(Data(j), j) :
            y.t = "confirm" /\ y.v > 0 => disk[<<j, y.k>>].digest)'
    BY <1>1, <1>2, <1>13 DEF Parts, Less
  <2>7. (j \in DOMAIN rjob =>
            \A y \in Sent(Back(j), j) :
                y.t = "ask" /\ y.v > 0 => disk[<<j, y.k>>].digest)'
    BY <1>1, <1>2 DEF Parts
  <2>8. (j \in DOMAIN rjob /\ sc.od /\ <<j, rjob[j].file_num>> \in sc.undated =>
            ~rjob[j].confirmed /\ ~rjob[j].waiting)'
    BY <1>1, <2>2
  <2> QED BY <1>2, <2>1, <2>4, <2>5, <2>6, <2>7, <2>8 DEF Parts
<1> QED BY <1>1, <1>2, <1>3, <1>5, <1>10, <1>11, <1>12, <1>13, <1>14, <1>15,
           <1>16,
           <1>17, <1>18, <1>6

\* An answer that is not about the file the job that writes is at, or that tells
\* to send it all, changes nothing there.
LEMMA ConfirmIdle ==
    ASSUME Inv, NEW m, NEW j, NEW k, NEW v, ConfirmTaken(m, j, k, v), JobInv(j),
           At(j) # k \/ v = 0
    PROVE  JobInv(j)'
<1>1. /\ j \in Jobs /\ sc \in Scenarios /\ k \in Nat /\ v \in Int /\ v >= Skip
      /\ sc' = sc /\ up /\ sc.od /\ m \in Sent(c2s, j)
      /\ Data(j) = c2s /\ Data(j)' = c2s' /\ Back(j) = s2c /\ Back(j)' = s2c
      /\ s2c' = s2c /\ Took(c2s, c2s', j, m) /\ Less(c2s, c2s', j)
      /\ Live(j) /\ Live(j)' /\ j \in DOMAIN wjob'
      /\ At(j) \in Nat /\ wjob'[j].resume = wjob[j].resume
      /\ At(j)' = At(j) /\ (Open(j)' <=> Open(j)) /\ faulted' = faulted
      /\ wjob'[j].on = wjob[j].on
      /\ state[j] \notin {"new", "saved", "gone", "added", "done"}
      /\ ~Has(c2s', j, {"send"})
      /\ Has(c2s', j, {"cancel"}) <=> Has(c2s, j, {"cancel"})
      /\ Shown(j)' <=> Shown(j)
  BY ConfirmTakenLife
<1>2. /\ m.t = "confirm" /\ m.k = k /\ m.v = v /\ sc.upload[j]
      /\ j \in DOMAIN wjob
      /\ UNCHANGED <<sc, up, breaks, rjob, reads, disk, dialog, saved, state,
                     from, kept, lost, faulted>>
  BY <1>1 DEF ConfirmTaken
<1>3. ~Item(m, j)
  <2>1. SUFFICES ASSUME Item(m, j) PROVE FALSE OBVIOUS
  <2>2. v > 0 BY <1>2, <2>1 DEF Item
  <2>3. StartOK(j, m) BY <1>1, <2>1 DEF JobInv, Chain, Took
  <2> QED BY <1>1, <1>2, <2>2, <2>3 DEF StartOK, Begins
<1>4. SameItems(c2s, c2s', j) BY <1>1, <1>3 DEF Took
<1>5. SameDisk(j) BY <1>2 DEF SameDisk
<1>6. SameFacts(j) BY <1>5, SameDiskFacts
<1>7. Quiet(j)
  <2>1. \A y \in Sent(c2s', j) : y \in Sent(c2s, j) BY <1>1 DEF Less
  <2> QED BY <1>1, <1>2, <1>4, <1>5, <2>1 DEF Quiet
<1>8. Answers(j)'
  BY <1>1, <1>2, <1>4, <1>6
     DEF JobInv, Answers, Less, SameItems, SameFacts, DigestOK, AskOK,
         ConfirmOK,
         ShownOK
<1>9. Ending(j)'
  BY <1>1, <1>2, <1>6 DEF JobInv, Ending, Undated, AllWhole, SameFacts
<1>10. Leftover(j)'
  <2>1. Has(c2s', j, {"error"}) => Has(c2s, j, {"error"}) BY <1>1 DEF Less, Has
  <2> QED BY <1>1, <1>2, <1>4, <1>6, <2>1
          DEF JobInv, Leftover, SameFacts, SameItems
<1> QED BY <1>7, <1>8, <1>9, <1>10, QuietStep DEF JobInv

\* An answer that the file the job that writes is at is not sent.
LEMMA ConfirmSkips ==
    ASSUME Inv, NEW m, NEW j, NEW k, NEW v, ConfirmTaken(m, j, k, v), JobInv(j),
           At(j) = k, v = Skip
    PROVE  JobInv(j)'
<1>1. /\ j \in Jobs /\ sc \in Scenarios /\ k \in Nat /\ IsFile(j, k)
      /\ sc' = sc /\ up /\ sc.od /\ m \in Sent(c2s, j)
      /\ Data(j) = c2s /\ Data(j)' = c2s' /\ Back(j) = s2c /\ Back(j)' = s2c
      /\ s2c' = s2c /\ Took(c2s, c2s', j, m) /\ Less(c2s, c2s', j)
      /\ Live(j) /\ Live(j)' /\ j \in DOMAIN wjob'
      /\ wjob'[j].resume = wjob[j].resume
      /\ At(j)' = k + 1 /\ ~Open(j)' /\ faulted' = faulted
      /\ state[j] \notin {"new", "saved", "gone", "added", "done"}
      /\ ~Has(c2s', j, {"send"})
      /\ Has(c2s', j, {"cancel"}) <=> Has(c2s, j, {"cancel"})
      /\ Shown(j)' <=> Shown(j)
  BY ConfirmTakenLife
<1>2. /\ m.t = "confirm" /\ m.k = k /\ m.v = Skip /\ sc.upload[j]
      /\ j \in DOMAIN wjob
      /\ UNCHANGED <<sc, up, breaks, rjob, reads, disk, dialog, saved, state,
                     from, kept, lost, faulted>>
      /\ FTTypeOK /\ Tokens(j)
  BY <1>1 DEF ConfirmTaken, Inv
<1>3. SameItems(c2s, c2s', j) BY <1>1, <1>2 DEF Took, Item, Skip
<1>4. SameDisk(j) /\ SameFacts(j)
  <2>1. SameDisk(j) BY <1>2 DEF SameDisk
  <2> QED BY <2>1, SameDiskFacts
<1>5. /\ <<j, k>> \in kept /\ ~Open(j) /\ k \in DOMAIN sc.files[j]
  BY <1>1, <1>2 DEF JobInv, Keeps, IsFile
<1>6. \A n \in DOMAIN sc.files[j] : n \in Nat BY <1>1, Scenario
<1>7. Untouched(j, k) /\ WholeBefore(j, k) BY <1>1 DEF JobInv, Touch
<1>8. /\ Untouched(j, k + 1)
      /\ k + 1 \in DOMAIN sc.files[j] => disk[<<j, k + 1>>].part = None
  BY <1>1, <1>6, <1>7 DEF Untouched
<1>9. \A n \in DOMAIN sc.files[j] : Shadowed(j, n, k) => Shadowed(j, n, k + 1)
  <2>1. \A y \in DOMAIN sc.files[j] : y <= k => y <= k + 1 BY <1>1, <1>6
  <2> QED BY <2>1 DEF Shadowed
<1>10. WholeBefore(j, k + 1)
  <2>1. ASSUME NEW n \in DOMAIN sc.files[j], n < k + 1, Size(j, n) # Dir,
               <<j, n>> \notin kept \cup faulted, sc.upload[j] => n >= from[j]
        PROVE  disk[<<j, n>>].final = Whole(<<j, n>>) \/ Shadowed(j, n, k + 1)
    <3>1. n # k BY <1>5, <2>1
    <3>2. n < k BY <1>1, <1>6, <2>1, <3>1
    <3> QED BY <1>7, <1>9, <2>1, <3>2 DEF WholeBefore
  <2> QED BY <2>1 DEF WholeBefore
<1>11. k + 1 \notin DOMAIN sc.files[j] => <<j, k + 1>> \notin kept
  BY <1>1, <1>2, Scenario DEF FTTypeOK, TypeHistory
<1>12. Empty(j, k + 1) BY <1>8 DEF Empty
<1>13. ASSUME NEW n \in Nat, n > k, Gap(j, k, n)
       PROVE  /\ n # k + 1 => /\ n > k + 1 /\ Gap(j, k + 1, n) /\ Passed(j, k + 1)
  <2>1. SUFFICES ASSUME n # k + 1
                 PROVE  n > k + 1 /\ Gap(j, k + 1, n) /\ Passed(j, k + 1)
    OBVIOUS
  <2>2. n > k + 1 BY <1>1, <1>13, <2>1
  <2>3. Gap(j, k + 1, n) BY <1>1, <1>6, <1>13 DEF Gap
  <2>4. k + 1 \in DOMAIN sc.files[j] => <<j, k + 1>> \in kept \cup faulted
    BY <1>1, <1>13, <2>2 DEF Gap
  <2> QED BY <1>8, <2>2, <2>3, <2>4 DEF Passed
<1>14. Touch(j)'
  BY <1>1, <1>2, <1>4, <1>8, <1>10 DEF JobInv, Touch, SameFacts
<1>15. Resumed(j)' BY <1>1, <1>2, <1>8 DEF JobInv, Resumed
<1>16. Torn(j)' BY <1>2, <1>4 DEF JobInv, Torn, IsPrefixOf, SameFacts, SameDisk
<1>17. ASSUME j \in DOMAIN rjob
       PROVE  /\ rjob[j].file_num \in Nat /\ rjob[j].file_num > k
              /\ rjob[j].file_num = k + 1 => Blank(j, k + 1)
  <2>1. rjob[j].file_num \in Nat BY <1>2, <1>17, ReadIs DEF FTTypeOK, TypeJobs
  <2>2. UnsentAt(j, rjob[j].file_num) BY <1>2, <1>17 DEF JobInv, Touch
  <2>3. rjob[j].file_num > k BY <1>1, <1>5, <2>1, <2>2 DEF UnsentAt
  <2>4. rjob[j].file_num = k + 1 => <<j, k + 1>> \notin kept
    BY <1>1, <1>11, <2>2 DEF UnsentAt
  <2> QED BY <1>12, <2>1, <2>3, <2>4 DEF Blank
<1>18. Chain(j)'
  <2>1. /\ \A y : Opens(c2s', j, y) <=> Opens(c2s, j, y)
        /\ \A y : Closes(c2s', j, y) <=> Closes(c2s, j, y)
        /\ \A y, z : Follows(c2s', j, y, z) <=> Follows(c2s, j, y, z)
        /\ Clear(c2s', j) <=> Clear(c2s, j)
        /\ Sent(c2s', j) \subseteq Sent(c2s, j)
    BY <1>1, <1>3 DEF SameItems, Less
  <2>2. ASSUME NEW y \in Sent(c2s', j), Opens(c2s', j, y) PROVE StartOK(j, y)'
    <3>1. /\ y \in Sent(c2s, j) /\ Item(y, j) /\ StartOK(j, y)
          /\ y \in Messages /\ DataOK(j, y)
      <4>1. y \in Messages
        BY <1>2, <2>1, <2>2, InSent DEF FTTypeOK, TypeQueues
      <4> QED BY <1>1, <1>2, <2>1, <2>2, <4>1, OpensSent
              DEF JobInv, Chain, FTTypeOK, TypeQueues
    <3>2. y.k \in Nat /\ y.v \in Int BY <3>1, MessageIs
    <3>3. ~(y.k = k /\ y.t = "confirm")
      BY <1>1, <1>5, <3>1, <3>2 DEF Item, JobInv, Keeps
    <3>4. y.k > k /\ Begins(j, y) /\ Gap(j, k, y.k)
      BY <1>1, <1>5, <3>1, <3>3 DEF StartOK, Blank
    <3>5. Begins(j, y)' BY <1>4, <3>4 DEF Begins, SameFacts, SameDisk
    <3>6. CASE y.k = k + 1
      <4>1. <<j, k + 1>> \notin kept
        <5>1. CASE y.t = "block" BY <1>1, <3>1, <3>6, <5>1 DEF JobInv, Keeps
        <5>2. CASE y.t = "done"
          <6>1. k + 1 \notin DOMAIN sc.files[j]
            BY <1>1, <3>1, <3>6, <5>2, Scenario DEF DataOK
          <6> QED BY <1>11, <6>1
        <5> QED BY <3>4, <5>1, <5>2 DEF Begins
      <4>2. Blank(j, y.k)' BY <1>4, <1>12, <3>6, <4>1 DEF Blank, SameFacts
      <4> QED BY <1>1, <3>5, <3>6, <4>2 DEF StartOK
    <3>7. CASE y.k # k + 1
      BY <1>1, <1>4, <1>13, <3>2, <3>4, <3>5, <3>7 DEF StartOK, SameFacts
    <3> QED BY <3>6, <3>7
  <2>3. ASSUME NEW y \in Sent(c2s', j), NEW z \in Sent(c2s', j),
               Follows(c2s', j, y, z)
        PROVE  FollowOK(j, y, z)'
    <3>1. FollowOK(j, y, z) BY <1>1, <2>1, <2>3 DEF JobInv, Chain
    <3> QED BY <1>2, <1>4, <3>1 DEF FollowOK, Begins, SameFacts, SameDisk
  <2>4. ASSUME NEW y \in Sent(c2s', j), j \in DOMAIN rjob, Closes(c2s', j, y)
        PROVE  LastOK(j, y)'
    <3>1. LastOK(j, y) BY <1>1, <2>1, <2>4 DEF JobInv, Chain
    <3> QED BY <1>2, <1>4, <3>1 DEF LastOK, Go, SameFacts, SameDisk
  <2>5. ASSUME j \in DOMAIN rjob, Clear(c2s', j) PROVE NoneOK(j)'
    <3>1. NoneOK(j) BY <1>1, <2>1, <2>5 DEF JobInv, Chain
    <3>2. PICK f : f = rjob[j].file_num OBVIOUS
    <3>3. f \in Nat /\ f > k /\ (f = k + 1 => Blank(j, k + 1))
      BY <1>17, <2>5, <3>2
    <3>4. Gap(j, k, f) /\ (rjob[j].pos <= 1 \/ <<j, f>> \in faulted)
      BY <1>1, <3>1, <3>2, <3>3 DEF NoneOK
    <3>5. CASE f = k + 1
      <4>1. Blank(j, f)' BY <1>4, <3>3, <3>5 DEF SameFacts
      <4> QED BY <1>1, <1>2, <3>2, <3>4, <3>5, <4>1 DEF NoneOK
    <3>6. CASE f # k + 1
      <4>1. f > k + 1 /\ Gap(j, k + 1, f)' /\ Passed(j, k + 1)'
        BY <1>4, <1>13, <3>3, <3>4, <3>6 DEF SameFacts
      <4> QED BY <1>1, <1>2, <3>2, <3>4, <4>1 DEF NoneOK
    <3> QED BY <3>5, <3>6
  <2> QED BY <1>1, <1>2, <2>2, <2>3, <2>4, <2>5 DEF Chain
<1>19. Reached(j)'
  BY <1>1, <1>2, <1>17 DEF JobInv, Reached, Less
<1>20. Answers(j)'
  <2>1. SUFFICES ASSUME j \in DOMAIN rjob PROVE Answers(j)' BY <1>2 DEF Answers
  <2>2. PICK f : f = rjob[j].file_num OBVIOUS
  <2>3. f \in Nat /\ f > k /\ (f = k + 1 => Blank(j, k + 1)')
    BY <1>4, <1>17, <2>1, <2>2 DEF SameFacts
  <2>4. Empty(j, k + 1)' BY <1>4, <1>12 DEF SameFacts
  <2>5. f > k + 1 \/ f = k + 1 BY <1>1, <2>3
  <2>6. ASSUME NEW y \in Sent(c2s', j), y.t = "digest" PROVE DigestOK(j, y)'
    <3>1. y.k = f BY <1>1, <1>2, <2>1, <2>2, <2>6 DEF Less, Tokens, WaitsFor
    <3> QED BY <1>1, <2>5, <3>1 DEF DigestOK
  <2>7. ASSUME NEW y \in Sent(s2c, j), y.t = "ask" PROVE AskOK(j, y)'
    <3>1. y.k = f BY <1>1, <1>2, <2>1, <2>2, <2>7 DEF Tokens, WaitsFor
    <3>2. AskOK(j, y) BY <1>1, <2>1, <2>7 DEF JobInv, Answers
    <3>3. y.v = 0 BY <1>1, <2>3, <3>1, <3>2 DEF AskOK
    <3> QED BY <1>1, <2>3, <2>5, <3>1, <3>3 DEF AskOK
  <2>8. ASSUME NEW y \in Sent(s2c, j), y.t = "confirm" PROVE ConfirmOK(j, y)'
    <3>1. y.k = f BY <1>1, <1>2, <2>1, <2>2, <2>8 DEF Tokens, WaitsFor
    <3>2. y.v = 0 BY <1>1, <1>2, <2>8 DEF FTTypeOK, TypeQueues, BackOK
    <3> QED BY <1>1, <2>3, <2>5, <3>1, <3>2 DEF ConfirmOK, Skip
  <2>9. Shown(j)' => ShownOK(j)'
    <3>1. SUFFICES ASSUME Shown(j) PROVE ShownOK(j)' BY <1>1
    <3>2. dialog[2] = f BY <1>2, <2>1, <2>2, <3>1 DEF Tokens, WaitsFor
    <3> QED BY <1>1, <1>2, <2>4, <2>5, <3>2 DEF ShownOK
  <2> QED BY <1>1, <1>2, <2>1, <2>6, <2>7, <2>8, <2>9 DEF JobInv, Answers
<1>21. Keeps(j)'
  <2>1. \A n \in DOMAIN sc.files[j] : n >= k + 1 => n >= k BY <1>1, <1>6
  <2>2. \A n \in DOMAIN sc.files[j] : Orig(<<j, n>>)' <=> Orig(<<j, n>>)
    BY <1>4 DEF SameFacts
  <2> QED BY <1>1, <1>2, <2>1, <2>2 DEF JobInv, Keeps, Less
<1>22. Ending(j)'
  BY <1>1, <1>2, <1>4 DEF JobInv, Ending, Undated, AllWhole, SameFacts
<1>23. Leftover(j)'
  <2>1. SUFFICES ASSUME breaks = 0, faulted = {} PROVE Leftover(j)'
    BY <1>2 DEF Leftover
  <2>2. Has(c2s', j, {"error"}) => Has(c2s, j, {"error"}) BY <1>1 DEF Less, Has
  <2>3. disk[<<j, k>>].part = None
    BY <1>1, <1>2, <1>5, <2>1 DEF JobInv, Keeps
  <2>4. \A n \in DOMAIN sc.files[j] :
           disk[<<j, n>>].part # None => Shadowed(j, n, k + 1)
    BY <1>1, <1>9, <2>1, <2>3 DEF JobInv, Leftover
  <2>5. Clear(c2s', j) <=> Clear(c2s, j) BY <1>3 DEF SameItems
  <2> QED BY <1>1, <1>2, <1>4, <2>1, <2>2, <2>4, <2>5
          DEF JobInv, Leftover, SameFacts
<1> QED BY <1>14, <1>15, <1>16, <1>18, <1>19, <1>20, <1>21, <1>22, <1>23
        DEF JobInv

\* An answer from where the file the job that writes is at goes on.
LEMMA ConfirmSeeks ==
    ASSUME Inv, NEW m, NEW j, NEW k, NEW v, ConfirmTaken(m, j, k, v), JobInv(j),
           At(j) = k, v > 0
    PROVE  JobInv(j)'
<1>1. /\ j \in Jobs /\ sc \in Scenarios /\ k \in Nat /\ IsFile(j, k)
      /\ v \in Int
      /\ sc' = sc /\ up /\ sc.od /\ m \in Sent(c2s, j)
      /\ Data(j) = c2s /\ Data(j)' = c2s' /\ Back(j) = s2c /\ Back(j)' = s2c
      /\ s2c' = s2c /\ Took(c2s, c2s', j, m) /\ Less(c2s, c2s', j)
      /\ Live(j) /\ Live(j)' /\ j \in DOMAIN wjob'
      /\ wjob'[j].resume = wjob[j].resume
      /\ At(j)' = k
      /\ \/ Open(j)' /\ wjob'[j].on = k
         \/ /\ Open(j)' <=> Open(j)
            /\ wjob'[j].on = wjob[j].on /\ <<j, k>> \in faulted'
      /\ MayFail(j, k, v)
      /\ state[j] \notin {"new", "saved", "gone", "added", "done"}
      /\ ~Has(c2s', j, {"send"})
      /\ Has(c2s', j, {"cancel"}) <=> Has(c2s, j, {"cancel"})
      /\ Shown(j)' <=> Shown(j)
  BY ConfirmTakenLife
<1>2. /\ m.t = "confirm" /\ m.k = k /\ m.v = v /\ sc.upload[j]
      /\ j \in DOMAIN wjob
      /\ UNCHANGED <<sc, up, breaks, rjob, reads, disk, dialog, saved, state,
                     from, kept, lost>>
      /\ FTTypeOK /\ Tokens(j) /\ m.j = j
      /\ faulted \subseteq faulted'
      /\ faulted' \subseteq faulted \cup {<<j, k>>}
  BY <1>1 DEF ConfirmTaken, Inv, Took, MayFail
<1>3. Item(m, j) BY <1>2 DEF Item
<1>4. /\ ~Clear(c2s, j) /\ Opens(c2s, j, m)
      /\ Clear(c2s', j) => Closes(c2s, j, m)
      /\ \A y : Opens(c2s', j, y) => Follows(c2s, j, m, y)
      /\ \A y : Closes(c2s', j, y) => Closes(c2s, j, y)
      /\ \A y, z : Follows(c2s', j, y, z) => Follows(c2s, j, y, z)
      /\ Sent(c2s', j) \subseteq Sent(c2s, j)
  BY <1>1, <1>3 DEF Took, Less
<1>5. SameDisk(j) /\ SameFacts(j)
  <2>1. SameDisk(j) BY <1>2 DEF SameDisk
  <2> QED BY <2>1, SameDiskFacts
<1>6. ~Open(j) /\ Holds(j, k, v)
  <2>1. StartOK(j, m) BY <1>1, <1>4 DEF JobInv, Chain
  <2> QED BY <1>1, <1>2, <2>1 DEF StartOK, Begins
<1>7. \/ Open(j)' /\ wjob'[j].on = k
      \/ ~Open(j)' /\ <<j, k>> \in faulted'
  BY <1>1, <1>6
<1>8. /\ <<j, k>> \notin kept /\ k \in DOMAIN sc.files[j] /\ Size(j, k) # Dir
      /\ Size(j, k) \in Nat
  BY <1>1, <1>2, Scenario DEF JobInv, Keeps, IsFile
<1>9. \A n \in DOMAIN sc.files[j] : n \in Nat BY <1>1, Scenario
<1>10. /\ Received(j, k, v)'
       /\ v >= Size(j, k) => Received(j, k, Size(j, k))'
  <2>1. Received(j, k, v) BY <1>1, <1>6 DEF Holds, Received
  <2>2. <<j, k>> \notin faulted => v <= Size(j, k)
    BY <1>6, <1>8 DEF JobInv, Torn, IsPrefixOf, Holds, Size
  <2>3. v >= Size(j, k) => Received(j, k, Size(j, k))
    BY <1>1, <1>6, <1>8, <2>2 DEF Holds, Received
  <2> QED BY <1>5, <2>1, <2>3 DEF SameFacts
<1>11. Touch(j)' BY <1>1, <1>2, <1>5 DEF JobInv, Touch, SameFacts
<1>12. Resumed(j)' BY <1>1, <1>2, <1>6 DEF JobInv, Resumed
<1>13. Torn(j)' BY <1>2, <1>5 DEF JobInv, Torn, IsPrefixOf, SameFacts, SameDisk
<1>14. ASSUME NEW n, n > k, Gap(j, k, n), <<j, k>> \in faulted
       PROVE  Gap(j, k, n)' /\ Passed(j, k)'
  BY <1>2, <1>5, <1>14 DEF Passed, SameFacts
<1>15. <<j, k>> \in faulted' => Blank(j, k)' BY <1>2, <1>8 DEF Blank, Empty
<1>16. Chain(j)'
  <2>1. ASSUME NEW y \in Sent(c2s', j), Opens(c2s', j, y) PROVE StartOK(j, y)'
    <3>1. FollowOK(j, m, y) BY <1>1, <1>4, <2>1 DEF JobInv, Chain
    <3>2. y \in Messages
      BY <1>2, <1>4, <2>1, InSent DEF FTTypeOK, TypeQueues
    <3>3. y.k \in Nat /\ y.v \in Int BY <3>2, MessageIs
    <3>4. CASE y.k > k /\ Begins(j, y) /\ Gap(j, k, y.k) /\ <<j, k>> \in faulted
      <4>1. Begins(j, y)' BY <1>5, <3>4 DEF Begins, SameFacts, SameDisk
      <4> QED BY <1>1, <1>14, <3>4, <4>1 DEF StartOK
    <3>5. CASE y.k = k /\ y.t = "block" /\ ~Open(j)' /\ <<j, k>> \in faulted'
      <4>1. Begins(j, y)' BY <3>5 DEF Begins
      <4> QED BY <1>1, <1>15, <3>5, <4>1 DEF StartOK
    <3>6. CASE y.k = k /\ y.t = "block" /\ Open(j)' /\ <<j, k>> \in faulted'
      <4>1. /\ Size(j, y.k)' # Dir /\ IsFile(j, k)' /\ At(j)' = k
        BY <1>1, <1>5, <1>8, <3>6 DEF SameFacts, SameDisk, IsFile
      <4>2. \A n : Received(j, y.k, n)' BY <3>6, <4>1 DEF Received
      <4> QED BY <3>6, <4>1, <4>2 DEF StartOK
    <3>7. CASE /\ y.k = k /\ y.t = "block" /\ Open(j)'
               /\ y.v = v + 1 \/ (y.v = 0 /\ v >= Size(j, k))
      <4>1. Size(j, k)' = Size(j, k) BY <1>5 DEF SameFacts
      <4>2. CASE y.v = v + 1
        <5>1. y.v # 0 /\ y.v - 1 = v BY <1>1, <3>3, <4>2
        <5> QED BY <1>1, <1>8, <1>10, <3>7, <4>1, <5>1 DEF StartOK
      <4>3. CASE y.v = 0 /\ v >= Size(j, k)
        BY <1>1, <1>8, <1>10, <3>7, <4>1, <4>3 DEF StartOK
      <4> QED BY <3>7, <4>2, <4>3
    <3> QED BY <1>2, <1>7, <3>1, <3>4, <3>7, <3>5, <3>6 DEF FollowOK
  <2>2. ASSUME NEW y \in Sent(c2s', j), NEW z \in Sent(c2s', j),
               Follows(c2s', j, y, z)
        PROVE  FollowOK(j, y, z)'
    <3>1. FollowOK(j, y, z) BY <1>1, <1>4, <2>2 DEF JobInv, Chain
    <3> QED BY <1>2, <1>5, <3>1 DEF FollowOK, Begins, SameFacts, SameDisk
  <2>3. ASSUME NEW y \in Sent(c2s', j), j \in DOMAIN rjob, Closes(c2s', j, y)
        PROVE  LastOK(j, y)'
    <3>1. LastOK(j, y) BY <1>1, <1>4, <2>3 DEF JobInv, Chain
    <3> QED BY <1>2, <1>5, <3>1 DEF LastOK, Go, SameFacts, SameDisk
  <2>4. ASSUME j \in DOMAIN rjob, Clear(c2s', j) PROVE NoneOK(j)'
    <3>1. LastOK(j, m) BY <1>1, <1>4, <2>4 DEF JobInv, Chain
    <3>2. PICK r : r = rjob[j] /\ r = rjob'[j] BY <1>2
    <3>3. r.file_num \in Nat /\ r.pos \in Nat
      BY <1>2, <2>4, <3>2, ReadIs DEF FTTypeOK, TypeJobs
    <3>4. CASE r.file_num > k /\ r.pos <= 1 /\ Gap(j, k, r.file_num)
               /\ <<j, k>> \in faulted
      <4>1. Gap(j, k, r.file_num)' /\ Passed(j, k)' BY <1>14, <3>4
      <4> QED BY <1>1, <3>2, <3>4, <4>1 DEF NoneOK
    <3>5. CASE r.file_num = k /\ r.pos > 0 /\ Go(j) /\ <<j, k>> \in faulted'
      <4>1. Go(j)' /\ <<j, r.file_num>> \in faulted' /\ r.file_num = At(j)'
        BY <1>1, <1>2, <3>5 DEF Go
      <4>2. CASE Open(j)'
        <5>1. IsFile(j, k)' BY <1>1, <1>5 DEF IsFile, SameFacts, SameDisk
        <5>2. Received(j, r.file_num, r.pos - 1)' BY <3>5, <5>1 DEF Received
        <5> QED BY <3>2, <3>5, <4>1, <4>2, <5>2 DEF NoneOK
      <4>3. CASE ~Open(j)'
        <5>1. Blank(j, r.file_num)' BY <1>15, <3>5
        <5> QED BY <3>2, <4>1, <4>3, <5>1 DEF NoneOK
      <4> QED BY <4>2, <4>3
    <3>6. CASE r.file_num = k /\ r.pos = v + 1 /\ Go(j) /\ Open(j)'
      <4>1. r.pos - 1 = v /\ r.pos > 1 /\ Go(j)'
        BY <1>1, <1>2, <3>3, <3>6 DEF Go
      <4>2. Received(j, r.file_num, r.pos - 1)' BY <1>10, <3>6, <4>1
      <4> QED BY <1>1, <3>2, <3>6, <4>1, <4>2 DEF NoneOK
    <3> QED BY <1>2, <1>7, <3>1, <3>2, <3>4, <3>6, <3>5 DEF LastOK
  <2> QED BY <1>1, <1>2, <2>1, <2>2, <2>3, <2>4 DEF Chain
<1>17. Reached(j)' BY <1>1, <1>2 DEF JobInv, Reached, Less
<1>18. Answers(j)'
  <2>1. SUFFICES ASSUME j \in DOMAIN rjob PROVE Answers(j)' BY <1>2 DEF Answers
  <2>2. ~Has(s2c, j, {"ask", "confirm"}) /\ ~Shown(j)
    BY <1>1, <1>2, <1>4, <2>1 DEF Tokens, Has
  <2>3. ASSUME NEW y \in Sent(c2s', j), y.t = "digest", Clear(c2s', j)
        PROVE  DigestOK(j, y)'
    <3>1. WaitsFor(j, y.k) BY <1>1, <1>2, <1>4, <2>1, <2>3 DEF Tokens
    <3>2. LastOK(j, m) BY <1>1, <1>4, <2>1, <2>3 DEF JobInv, Chain
    <3>3. y.k > k BY <1>1, <1>2, <3>1, <3>2 DEF LastOK, Go, WaitsFor
    <3> QED BY <1>1, <3>3 DEF DigestOK
  <2> QED BY <1>1, <2>2, <2>3 DEF Answers, Has
<1>19. Keeps(j)'
  <2>1. \A n \in DOMAIN sc.files[j] : Orig(<<j, n>>)' <=> Orig(<<j, n>>)
    BY <1>5 DEF SameFacts
  <2>2. (Open(j) => /\ <<j, At(j)>> \notin kept
                    /\ <<j, wjob[j].on>> \notin kept /\ wjob[j].on <= At(j))'
    BY <1>1, <1>2, <1>8, <1>7
  <2>3. kept' \ faulted' \subseteq kept \ faulted BY <1>2
  <2>4. (\A n \in DOMAIN sc.files[j] :
            <<j, n>> \in kept \ faulted =>
                /\ Orig(<<j, n>>)
                /\ Live(j) /\ n >= At(j) /\ (sc.upload[j] \/ breaks = 0)
                      => disk[<<j, n>>].part = None)'
    BY <1>1, <1>2, <2>1, <2>3 DEF JobInv, Keeps
  <2>5. /\ \A y \in Sent(c2s, j) :
              /\ y.t = "block" \/ (y.t = "confirm" /\ y.v >= 0)
                 => <<j, y.k>> \notin kept
              /\ y.t = "confirm" /\ y.v = Skip => <<j, y.k>> \in kept
        /\ j \in DOMAIN rjob /\ rjob[j].confirmed
           => <<j, rjob[j].file_num>> \notin kept
    BY <1>1 DEF JobInv, Keeps
  <2> QED BY <1>1, <1>2, <1>4, <2>2, <2>4, <2>5 DEF Keeps
<1>20. Ending(j)'
  BY <1>1, <1>2, <1>5 DEF JobInv, Ending, Undated, AllWhole, SameFacts
<1>21. Leftover(j)'
  <2>1. SUFFICES ASSUME breaks = 0, faulted = {}, faulted' = {}
                 PROVE Leftover(j)'
    BY <1>2 DEF Leftover
  <2>2. ~Has(c2s', j, {"error"})
    BY <1>1, <1>2, <1>4, <2>1 DEF JobInv, Leftover, Has
  <2> QED BY <1>1, <1>2, <1>5, <2>1, <2>2 DEF JobInv, Leftover, SameFacts
<1> QED BY <1>11, <1>12, <1>13, <1>16, <1>17, <1>18, <1>19, <1>20, <1>21
        DEF JobInv

\* FileAction::SendConfirm.
LEMMA OnConfirmServerStep ==
    ASSUME Inv, OnConfirmServer
    PROVE  Inv'
<1>1. /\ FTTypeOK /\ c2s # <<>>
      /\ UNCHANGED <<sc, up, breaks, reads, disk, dialog, saved, state, from,
                     kept,
                     lost>>
  BY DEF Inv, OnConfirmServer, ServerGets
<1>2. PICK m, j :
         /\ ServerTook(m, j, <<>>) /\ m.t = "confirm"
         /\ \/ /\ j \notin DOMAIN (IF sc.upload[j] THEN wjob ELSE rjob)
               /\ UNCHANGED <<rjob, wjob, faulted>>
            \/ /\ ~sc.upload[j] /\ j \in DOMAIN rjob
               /\ \E o \in Seeks(rjob[j], m.k, m.v) :
                     /\ rjob' = [rjob EXCEPT ![j] = ConfirmRead(@, m.k, o)]
                     /\ Sought(j, m.k, m.v, o)
               /\ UNCHANGED wjob
            \/ /\ sc.upload[j] /\ j \in DOMAIN wjob
               /\ \E o \in Seeks(wjob[j], m.k, m.v) :
                     /\ wjob' = [wjob EXCEPT ![j] = ConfirmWrite(@, m.k, o)]
                     /\ Sought(j, m.k, m.v, o)
               /\ UNCHANGED rjob
  <2>1. ServerTakes(<<>>) BY DEF OnConfirmServer
  <2>2. ServerTook(Head(c2s), Head(c2s).j, <<>>) BY <1>1, <2>1, ServerTake
  <2> QED BY <2>2 DEF OnConfirmServer, ServerGets
<1>3. /\ j \in Jobs /\ m \in Sent(c2s, j) /\ up
      /\ Took(c2s, c2s', j, m) /\ s2c' = s2c /\ sc' = sc
      /\ \A i : i # j => SameQueue(c2s, c2s', i) /\ SameQueue(s2c, s2c', i)
      /\ c2s' \in Seq(Messages) /\ s2c' \in Seq(Messages) /\ Life(j)
  BY <1>1, <1>2 DEF ServerTook, Inv
<1>4. CASE ~sc.upload[j] /\ j \in DOMAIN rjob
  <2>1. /\ wjob' = wjob
        /\ \E o \in Seeks(rjob[j], m.k, m.v) :
              /\ rjob' = [rjob EXCEPT ![j] = ConfirmRead(@, m.k, o)]
              /\ Sought(j, m.k, m.v, o)
    BY <1>2, <1>4
  <2> QED BY <1>1, <1>2, <1>4, <2>1, OnConfirmReadStep
<1>5. CASE ~sc.upload[j] /\ j \notin DOMAIN rjob
  <2>1. wjob' = wjob /\ rjob' = rjob /\ faulted' = faulted BY <1>2, <1>5
  <2>2. Data(j) = s2c /\ Data(j)' = s2c' /\ Back(j) = c2s /\ Back(j)' = c2s'
    BY <1>3, <1>5 DEF Data, Back
  <2> QED BY <1>1, <1>2, <1>3, <1>5, <2>1, <2>2, NotAwaited
<1>6. CASE sc.upload[j] /\ j \notin DOMAIN wjob
  <2>1. wjob' = wjob /\ rjob' = rjob /\ faulted' = faulted BY <1>2, <1>6
  <2>2. Data(j) = c2s /\ Data(j)' = c2s' /\ Back(j) = s2c /\ Back(j)' = s2c'
    BY <1>3, <1>6 DEF Data, Back
  <2>3. ~Live(j) /\ ~Live(j)'
    <3>1. ~Has(c2s', j, {"send", "receive"})
      BY <1>3 DEF Life, LifeStart, Took
    <3> QED BY <1>2, <1>3, <1>6, <2>1, <3>1 DEF Live, Has, Took
  <2> QED BY <1>1, <1>3, <2>1, <2>2, <2>3, UnheardStep
<1>7. CASE sc.upload[j] /\ j \in DOMAIN wjob
  <2>1. PICK k, v : k = m.k /\ v = m.v OBVIOUS
  <2>2. ConfirmTaken(m, j, k, v) BY <1>1, <1>2, <1>7, <2>1 DEF ConfirmTaken
  <2>3. /\ FTTypeOK' /\ Life(j)' /\ Tokens(j)' /\ Parts(j)'
        /\ \A i \in Jobs \ {j} : Frame(i)
        /\ v \in Int /\ v >= Skip
    BY <2>2, ConfirmTakenLife
  <2>4. ASSUME JobInv(j) PROVE JobInv(j)'
    <3>1. CASE At(j) # k \/ v = 0 BY <2>2, <2>4, <3>1, ConfirmIdle
    <3>2. CASE At(j) = k /\ v = Skip BY <2>2, <2>4, <3>2, ConfirmSkips
    <3>3. CASE At(j) = k /\ v > 0 BY <2>2, <2>4, <3>3, ConfirmSeeks
    <3> QED BY <2>3, <3>1, <3>2, <3>3 DEF Skip
  <2>5. Sane' => Sane BY <1>1 DEF Sane
  <2> QED BY <1>1, <1>3, <2>3, <2>4, <2>5, OwnStep DEF Inv
<1>8. sc.upload[j] \in BOOLEAN BY <1>1, <1>3, Scenario DEF FTTypeOK, TypeUser
<1> QED BY <1>4, <1>5, <1>6, <1>7, <1>8

-----------------------------------------------------------------------------
(* The connection is lost, and jobs are resumed. *)

\* Data::ResumeJob.
LEMMA ResumeJobStep ==
    ASSUME Inv, NEW j \in Jobs, ResumeJob(j)
    PROVE  Inv'
<1>1. /\ FTTypeOK /\ up /\ state[j] = "added"
      /\ state' = [state EXCEPT ![j] = "running"]
      /\ UNCHANGED <<sc, up, breaks, reads, disk, s2c, dialog, saved, kept,
                     lost,
                     faulted>>
  BY DEF Inv, ResumeJob
<1>2. Life(j) /\ Parts(j) /\ (Sane => JobInv(j)) BY DEF Inv
<1>3. /\ Sent(c2s, j) = {} /\ Sent(s2c, j) = {} /\ ~Shown(j)
      /\ sc.upload[j] \in BOOLEAN
      /\ sc.upload[j] => /\ j \in DOMAIN rjob /\ j \notin DOMAIN wjob
                         /\ rjob[j].pos = 0 /\ ~rjob[j].confirmed
      /\ ~sc.upload[j] => /\ j \notin DOMAIN rjob /\ j \in DOMAIN wjob
                          /\ ~wjob[j].open /\ ~wjob[j].listed
  BY <1>1, <1>2, Scenario DEF Life, LifeIdle, FTTypeOK, TypeUser
<1>4. /\ sc.upload[j] => rjob[j] \in ReadJobs
      /\ ~sc.upload[j] => wjob[j] \in WriteJobs
  BY <1>1, <1>3 DEF FTTypeOK, TypeJobs
<1>5. PICK n : n = FileNum(j) /\ n \in Nat
  BY <1>3, <1>4, ReadIs, WriteIs DEF FileNum
<1>6. PICK x : /\ UserSent(j, x) /\ x.k = n
               /\ x.t = IF sc.upload[j] THEN "receive" ELSE "send"
  <2>1. "send" \in Kinds /\ "receive" \in Kinds /\ 0 \in Int BY DEF Kinds
  <2>2. CASE sc.upload[j]
    <3>1. c2s' = Append(c2s, Msg("receive", j, n, 0))
      BY <1>5, <2>2 DEF ResumeJob
    <3>2. \E x : UserSent(j, x) /\ x.t = "receive" /\ x.k = n /\ x.v = 0
      BY <1>1, <1>5, <2>1, <3>1, UserSends
    <3> QED BY <2>2, <3>2
  <2>3. CASE ~sc.upload[j]
    <3>1. c2s' = Append(c2s, Msg("send", j, n, 0)) BY <1>5, <2>3 DEF ResumeJob
    <3>2. \E x : UserSent(j, x) /\ x.t = "send" /\ x.k = n /\ x.v = 0
      BY <1>1, <1>5, <2>1, <3>1, UserSends
    <3> QED BY <2>3, <3>2
  <2> QED BY <2>2, <2>3
<1>7. /\ Sent(c2s', j) = {x} /\ Sent(s2c', j) = {} /\ Gave(c2s, c2s', j, x)
      /\ x.t \in {"send", "receive"} /\ sc' = sc
      /\ Sent(Data(j)', j) \subseteq {x} /\ Sent(Back(j)', j) \subseteq {x}
  BY <1>1, <1>3, <1>6 DEF UserSent, Data, Back
<1>8. /\ state' \in [Jobs -> States] /\ state'[j] = "running"
      /\ \A i \in Jobs : i # j => state'[i] = state[i]
  <2>1. state \in [Jobs -> States] BY <1>1 DEF FTTypeOK, TypeUser
  <2> QED BY <1>1, <2>1 DEF States
<1>9. /\ from' \in [Jobs -> Nat] /\ from'[j] = n
      /\ \A i \in Jobs : i # j => from'[i] = from[i]
  <2>1. from \in [Jobs -> Nat] BY <1>1 DEF FTTypeOK, TypeUser
  <2>2. from' = [from EXCEPT ![j] = n] BY <1>5 DEF ResumeJob
  <2> QED BY <1>5, <2>1, <2>2
<1>10. /\ DOMAIN rjob' = DOMAIN rjob /\ DOMAIN wjob' = DOMAIN wjob
       /\ \A i \in DOMAIN rjob : i # j => rjob'[i] = rjob[i]
       /\ \A i \in DOMAIN wjob : i # j => wjob'[i] = wjob[i]
       /\ sc.upload[j] =>
             /\ rjob'[j] \in ReadJobs /\ rjob'[j].file_num = n
             /\ rjob'[j].pos = 0
             /\ ~rjob'[j].confirmed /\ rjob'[j].resume
             /\ rjob[j].file_num = n /\ rjob'[j].waiting = rjob[j].waiting
       /\ ~sc.upload[j] =>
             /\ wjob'[j] \in WriteJobs /\ wjob'[j].file_num = n
             /\ ~wjob'[j].open /\ ~wjob'[j].listed /\ wjob'[j].resume
             /\ wjob[j].file_num = n
  <2>1. CASE sc.upload[j]
    <3>1. /\ rjob' = [rjob EXCEPT ![j] = [rjob[j] EXCEPT !.last = FALSE,
                                                         !.resume = TRUE]]
          /\ wjob' = wjob
      BY <2>1 DEF ResumeJob
    <3>2. rjob'[j] = [rjob[j] EXCEPT !.last = FALSE, !.resume = TRUE]
      BY <1>3, <2>1, <3>1
    <3>3. /\ rjob'[j] \in ReadJobs /\ rjob'[j].file_num = rjob[j].file_num
          /\ rjob'[j].pos = rjob[j].pos
          /\ rjob'[j].confirmed = rjob[j].confirmed
          /\ rjob'[j].waiting = rjob[j].waiting /\ rjob'[j].resume
      BY <1>4, <2>1, <3>2 DEF ReadJobs
    <3>4. rjob[j].file_num = n BY <1>5, <2>1 DEF FileNum
    <3> QED BY <1>3, <2>1, <3>1, <3>3, <3>4
  <2>2. CASE ~sc.upload[j]
    <3>1. /\ wjob' = [wjob EXCEPT ![j] = [wjob[j] EXCEPT !.last = FALSE,
                                                         !.resume = TRUE]]
          /\ rjob' = rjob
      BY <2>2 DEF ResumeJob
    <3>2. wjob'[j] = [wjob[j] EXCEPT !.last = FALSE, !.resume = TRUE]
      BY <1>3, <2>2, <3>1
    <3>3. /\ wjob'[j] \in WriteJobs /\ wjob'[j].file_num = wjob[j].file_num
          /\ wjob'[j].open = wjob[j].open /\ wjob'[j].listed = wjob[j].listed
          /\ wjob'[j].resume
      BY <1>4, <2>2, <3>2 DEF WriteJobs
    <3>4. wjob[j].file_num = n BY <1>5, <2>2 DEF FileNum
    <3> QED BY <1>3, <2>2, <3>1, <3>3, <3>4
  <2> QED BY <2>1, <2>2
<1>11. FTTypeOK'
  <2>1. TypeJobs' BY <1>1, <1>3, <1>7, <1>10, JobsStep DEF FTTypeOK, TypeJobs
  <2>2. TypeQueues'
    <3>1. IF sc.upload[j] THEN DataOK(j, x) ELSE BackOK(j, x)
      BY <1>6 DEF DataOK, BackOK
    <3>2. /\ \A m \in Sent(Data(j)', j) : m \in Sent(Data(j), j) \/ DataOK(j, m)
          /\ \A m \in Sent(Back(j)', j) : m \in Sent(Back(j), j) \/ BackOK(j, m)
      BY <1>1, <1>7, <3>1 DEF Data, Back
    <3>3. s2c' \in Seq(Messages)
      BY <1>1 DEF FTTypeOK, TypeQueues, Messages, Jobs
    <3> QED BY <1>1, <1>6, <1>7, <3>2, <3>3, QueuesStep, SameRefl
            DEF FTTypeOK, UserSent
  <2>3. TypeReads' BY <1>1, <1>10, ReadsSame
  <2>4. TypeUser'
    BY <1>1, <1>8, <1>9 DEF FTTypeOK, TypeUser, Jobs, Files, IsFile, Size
  <2> QED BY <1>1, <2>1, <2>2, <2>3, <2>4, HistorySame, FilesSame DEF FTTypeOK
<1>12. ASSUME NEW i \in Jobs \ {j} PROVE Frame(i)
  BY <1>1, <1>6, <1>8, <1>9, <1>10, SameRefl DEF Frame, Shown, UserSent
<1>13. Live(j)' /\ At(j)' = n /\ ~Open(j)' /\ ~Shown(j)'
  BY <1>1, <1>3, <1>6, <1>7, <1>9, <1>10 DEF Live, At, Open, Has, Shown
<1>14. Life(j)'
  <2>1. /\ Leads(c2s', j, {"send", "receive"}) /\ Leads(s2c', j, {"dir"})
    BY <1>1, <1>2, <1>3, <1>7 DEF Life, LifeStart, Gave
  <2>2. Once(Data(j)', j, {"done"})
    BY <1>1, <1>2, <1>7 DEF Life, LifeEnd, Gave, Data
  <2> QED BY <1>1, <1>3, <1>6, <1>7, <1>8, <1>9, <1>10, <1>13, <2>1, <2>2
          DEF Life, LifeIdle, LifeStart, LifeEnd, Has
<1>15. Tokens(j)'
  <2>1. ~Has(Data(j)', j, {"digest"}) /\ ~Has(Back(j)', j, {"ask", "confirm"})
    BY <1>7 DEF Has
  <2>2. /\ Once(Data(j)', j, {"digest"}) /\ Trails(Data(j)', j)
        /\ Once(Back(j)', j, {"ask", "confirm"})
    BY <2>1, NoneOnce, NoneTrails
  <2> QED BY <1>3, <1>7, <1>10, <1>13, <2>1, <2>2 DEF Tokens, Has
<1>16. Parts(j)'
  <2>1. OffsetFirst(Data(j)', j)
    BY <1>1, <1>2, <1>7 DEF Parts, Gave, Item, Data
  <2>2. j \in DOMAIN rjob' => sc.upload[j] BY <1>3, <1>10
  <2>3. (j \in DOMAIN rjob /\ sc.od /\ <<j, rjob[j].file_num>> \in sc.undated =>
            ~rjob[j].confirmed /\ ~rjob[j].waiting)'
    BY <1>1, <1>2, <1>10, <2>2 DEF Parts
  <2>4. (\A k \in DOMAIN sc.files[j] :
            disk[<<j, k>>].part # None =>
                disk[<<j, k>>].digest \/ <<j, k>> \in faulted)'
    BY <1>1, <1>2 DEF Parts
  <2>5. \A y \in Sent(Data(j)', j) : y.t # "confirm" BY <1>7
  <2>6. \A y \in Sent(Back(j)', j) : y.t # "ask" BY <1>7
  <2> QED BY <1>13, <2>1, <2>3, <2>4, <2>5, <2>6 DEF Parts
<1>17. ASSUME Sane, JobInv(j) PROVE JobInv(j)'
  <2>1. breaks # 0 /\ sc.od BY <1>1, <1>17 DEF Sane, JobInv, Resumed
  <2>2. /\ \A k : Size(j, k)' = Size(j, k) /\ Whole(<<j, k>>)' = Whole(<<j, k>>)
        /\ \A k : Orig(<<j, k>>) => Orig(<<j, k>>)'
        /\ \A b : Untouched(j, b) => Untouched(j, b)'
        /\ \A b : UnsentAt(j, b) => UnsentAt(j, b)'
        /\ \A k, b : Shadowed(j, k, b) => Shadowed(j, k, b)'
        /\ \A k : LaterFails(<<j, k>>) => LaterFails(<<j, k>>)'
    BY <1>1
    DEF LaterFails, Size, Whole, Orig, Untouched, UnsentAt, Shadowed, Gap
  <2>3. \A k \in DOMAIN sc.files[j] : k \in Nat
    BY <1>1, Scenario DEF FTTypeOK, TypeUser
  <2>4. Untouched(j, n) /\ (sc.upload[j] => UnsentAt(j, n))
    <3>1. CASE sc.upload[j] BY <1>3, <1>10, <1>17, <3>1 DEF JobInv, Touch
    <3>2. CASE ~sc.upload[j]
      BY <1>3, <1>10, <1>17, <3>2 DEF JobInv, Touch, Live, At
    <3> QED BY <3>1, <3>2
  <2>5. WholeBefore(j, n)'
    <3>1. CASE sc.upload[j] BY <1>1, <1>5, <1>9, <2>3, <3>1 DEF WholeBefore
    <3>2. CASE ~sc.upload[j]
      <4>1. WholeBefore(j, n)
        BY <1>3, <1>10, <1>17, <3>2 DEF JobInv, Touch, Live, At
      <4> QED BY <1>1, <2>2, <3>2, <4>1 DEF WholeBefore
    <3> QED BY <3>1, <3>2
  <2>6. Touch(j)'
    BY <1>1, <1>8, <1>10, <1>13, <2>2, <2>4, <2>5 DEF Touch
  <2>7. Resumed(j)' BY <1>1, <1>3, <1>10, <2>1 DEF Resumed
  <2>8. Torn(j)' BY <1>1, <1>17, <2>2 DEF JobInv, Torn, IsPrefixOf
  <2>9. Chain(j)'
    <3>1. \A y : ~Opens(Data(j)', j, y) /\ ~Closes(Data(j)', j, y)
      BY <1>7, OpensSent DEF Item
    <3>2. \A y, z : ~Follows(Data(j)', j, y, z)
      BY <1>7, OpensSent DEF Item
    <3>3. ASSUME j \in DOMAIN rjob' PROVE NoneOK(j)'
      <4>1. sc.upload[j] BY <1>3, <1>10, <3>3
      <4>2. ~Go(j)' BY <1>1, <1>10, <2>1, <4>1 DEF Go
      <4> QED BY <1>10, <1>13, <4>1, <4>2 DEF NoneOK
    <3> QED BY <3>1, <3>2, <3>3 DEF Chain
  <2>10. Reached(j)' BY <1>3, <1>5, <1>7, <1>10, <1>13 DEF Reached
  <2>11. Answers(j)' BY <1>7, <1>13 DEF Answers
  <2>12. Keeps(j)'
    <3>1. ASSUME NEW k \in DOMAIN sc.files[j], <<j, k>> \in kept \ faulted
          PROVE  Orig(<<j, k>>)' /\ ~(k >= n /\ sc.upload[j])
      <4>1. Orig(<<j, k>>) BY <1>17, <3>1 DEF JobInv, Keeps
      <4> QED BY <2>2, <2>4, <3>1, <4>1 DEF UnsentAt
    <3> QED BY <1>1, <1>3, <1>7, <1>10, <1>13, <2>1, <3>1 DEF Keeps
  <2>13. Ending(j)'
    BY <1>1, <1>3, <1>7, <1>8, <1>10, <1>13 DEF Ending, Has
  <2>14. Leftover(j)' BY <1>1, <2>1 DEF Leftover
  <2> QED BY <2>6, <2>7, <2>8, <2>9, <2>10, <2>11, <2>12, <2>13, <2>14
          DEF JobInv
<1>18. Sane' => Sane BY <1>1 DEF Sane
<1> QED BY <1>1, <1>2, <1>11, <1>12, <1>14, <1>15, <1>16, <1>17, <1>18, OwnStep

\* Nothing is on the way.
LEMMA NothingSent ==
    ASSUME NEW j
    PROVE  /\ Sent(<<>>, j) = {} /\ Clear(<<>>, j)
           /\ \A T : Leads(<<>>, j, T) /\ Once(<<>>, j, T) /\ ~Has(<<>>, j, T)
           /\ Trails(<<>>, j) /\ OffsetFirst(<<>>, j)
           /\ \A m : ~Opens(<<>>, j, m) /\ ~Closes(<<>>, j, m)
           /\ \A m, n : ~Follows(<<>>, j, m, n)
<1>1. DOMAIN <<>> = {} /\ Len(<<>>) = 0 /\ 1 .. 0 = {} OBVIOUS
<1>2. Sent(<<>>, j) = {} BY <1>1 DEF Sent
<1> QED BY <1>1, <1>2 DEF Clear, NoItem, Leads, Once, Has, Trails, OffsetFirst,
                         Opens, Closes, Follows

\* All messages are lost, or none was sent.
LEMMA QueuesEmpty ==
    ASSUME sc' = sc, c2s' = <<>>, s2c' = <<>>
    PROVE  TypeQueues' /\ \A j : Data(j)' = <<>> /\ Back(j)' = <<>>
<1>1. \A j : Data(j)' = <<>> /\ Back(j)' = <<>> BY DEF Data, Back
<1>2. \A j : Sent(<<>>, j) = {} BY NothingSent
<1>3. \A j : Sent(Data(j)', j) = {} /\ Sent(Back(j)', j) = {} BY <1>1, <1>2
<1> QED BY <1>1, <1>3 DEF TypeQueues

\* Inv, from its parts.
LEMMA InvIs ==
    ASSUME sc' = sc, FTTypeOK', LifeDown',
           \A j \in Jobs : Life(j)' /\ Tokens(j)' /\ Parts(j)' /\ (Sane' => JobInv(j)')
    PROVE  Inv'
<1>1. Jobs' = Jobs BY DEF Jobs
<1>2. \A j \in Jobs' : Life(j)' /\ Tokens(j)' /\ Parts(j)' BY <1>1
<1>3. Sane' => \A j \in Jobs' : JobInv(j)' BY <1>1
<1> QED BY <1>2, <1>3 DEF Inv

\* The connection is lost.
LEMMA ConnectionLostStep ==
    ASSUME Inv, ConnectionLost
    PROVE  Inv'
<1>1. /\ FTTypeOK /\ up /\ up' = FALSE /\ breaks' = breaks + 1
      /\ breaks < sc.breaks
      /\ c2s' = <<>> /\ s2c' = <<>> /\ dialog' = None
      /\ UNCHANGED <<sc, disk, from, kept, lost, faulted>>
      /\ DOMAIN rjob' = {} /\ DOMAIN wjob' = {}
      /\ reads' = NoReads
  BY DEF Inv, ConnectionLost, history
<1>2. sc \in Scenarios /\ sc.breaks \in Nat /\ breaks \in Nat
  <2>1. sc \in Scenarios BY <1>1 DEF FTTypeOK, TypeUser
  <2>2. sc.breaks \in Nat BY <2>1, FileTransferAssumption DEF ScenarioOK
  <2> QED BY <1>1, <2>1, <2>2 DEF FTTypeOK, TypeUser
<1>3. \A j \in Jobs : /\ sc.upload[j] \in BOOLEAN
                      /\ Life(j) /\ (Sane => JobInv(j))
  BY <1>2, Scenario DEF Inv
<1>4. \A j \in Jobs : Parts(j) BY DEF Inv
<1>5. ASSUME NEW j \in Jobs
      PROVE  /\ j \in ClientJobs <=> IF sc.upload[j] THEN j \in DOMAIN rjob
                                     ELSE j \in DOMAIN wjob
             /\ j \in ClientJobs => FileNum(j) \in Nat
  <2>1. j \in ClientJobs <=> IF sc.upload[j] THEN j \in DOMAIN rjob
                             ELSE j \in DOMAIN wjob
    BY <1>3, <1>5 DEF ClientJobs
  <2>2. j \in ClientJobs => FileNum(j) \in Nat
    BY <1>1, <2>1, ReadIs, WriteIs DEF FileNum, FTTypeOK, TypeJobs
  <2> QED BY <2>1, <2>2
<1>6. ClientJobs \subseteq Jobs BY <1>1 DEF ClientJobs, FTTypeOK, TypeJobs
<1>7. /\ DOMAIN saved' = ClientJobs
      /\ \A j \in ClientJobs : saved'[j] = FileNum(j)
  BY DEF ConnectionLost
<1>8. /\ state' \in [Jobs -> States]
      /\ \A j \in Jobs : /\ j \in ClientJobs => state'[j] = "saved"
                         /\ j \notin ClientJobs /\ state[j] = "running"
                               => state'[j] = "gone"
                         /\ j \notin ClientJobs /\ state[j] # "running"
                               => state'[j] = state[j]
  <2>1. state \in [Jobs -> States] BY <1>1 DEF FTTypeOK, TypeUser
  <2>2. state' = [j \in Jobs |-> IF j \in ClientJobs THEN "saved"
                                 ELSE IF state[j] = "running" THEN "gone"
                                 ELSE state[j]]
    BY DEF ConnectionLost
  <2> QED BY <2>1, <2>2 DEF States
<1>9. TypeQueues' /\ \A j : Data(j)' = <<>> /\ Back(j)' = <<>>
  BY <1>1, QueuesEmpty
<1>10. FTTypeOK'
  <2>1. TypeJobs' BY <1>1 DEF TypeJobs
  <2>2. TypeReads'
    <3>1. /\ reads' \in [{"client", "server"} -> Seq(Jobs)]
          /\ \A side \in {"client", "server"} : reads'[side] = <<>>
      BY <1>1 DEF NoReads
    <3>2. \A side \in {"client", "server"} : DOMAIN reads'[side] = {} BY <3>1
    <3>3. Jobs' = Jobs BY <1>1 DEF Jobs
    <3> QED BY <3>1, <3>2, <3>3 DEF TypeReads
  <2>3. TypeUser'
    <3>1. DOMAIN saved' \subseteq Jobs /\ \A j \in DOMAIN saved' : saved'[j] \in Nat
      BY <1>5, <1>6, <1>7
    <3>2. breaks' \in 0 .. sc.breaks BY <1>1, <1>2
    <3>3. Jobs' = Jobs BY <1>1 DEF Jobs
    <3> QED BY <1>1, <1>8, <3>1, <3>2, <3>3 DEF FTTypeOK, TypeUser
  <2> QED BY <1>1, <1>9, <2>1, <2>2, <2>3, HistorySame, FilesSame DEF FTTypeOK
<1>11. LifeDown'
  <2>1. ASSUME NEW j \in Jobs
        PROVE  /\ state'[j] \notin {"running", "added"}
               /\ state'[j] = "saved" <=> j \in DOMAIN saved'
    <3>1. CASE j \in ClientJobs BY <1>7, <1>8, <3>1
    <3>2. CASE j \notin ClientJobs
      <4>1. state[j] # "added" /\ state[j] # "saved"
        BY <1>1, <1>3, <1>5, <3>2 DEF Life, LifeIdle
      <4> QED BY <1>7, <1>8, <3>2, <4>1
    <3> QED BY <3>1, <3>2
  <2>2. Jobs' = Jobs BY <1>1 DEF Jobs
  <2>3. breaks' > 0 BY <1>1, <1>2
  <2> QED BY <1>1, <2>1, <2>2, <2>3 DEF LifeDown
<1>12. ASSUME NEW j \in Jobs
       PROVE  Life(j)' /\ Tokens(j)' /\ Parts(j)' /\ (Sane' => JobInv(j)')
  <2>1. /\ Sent(<<>>, j) = {} /\ Clear(<<>>, j)
        /\ \A T : Leads(<<>>, j, T) /\ Once(<<>>, j, T) /\ ~Has(<<>>, j, T)
        /\ Trails(<<>>, j) /\ OffsetFirst(<<>>, j)
        /\ \A m : ~Opens(<<>>, j, m) /\ ~Closes(<<>>, j, m)
        /\ \A m, n : ~Follows(<<>>, j, m, n)
    BY NothingSent
  <2>2. ~Live(j)' /\ ~Open(j)' /\ ~Shown(j)'
    BY <1>1, <2>1 DEF Live, Open, Shown
  <2>3. \A s \in {"new", "cancelled", "done"} :
           state'[j] = s => j \notin ClientJobs /\ state[j] = s
    BY <1>8
  <2>4. state'[j] # "added" BY <1>1, <1>11 DEF LifeDown, Jobs
  <2>5. Life(j)'
    <3>1. LifeIdle(j)'
      BY <1>1, <1>3, <2>1, <2>2, <2>3, <2>4 DEF Life, LifeIdle
    <3>2. LifeStart(j)' BY <1>1, <2>1 DEF LifeStart
    <3>3. LifeEnd(j)' BY <1>1, <1>9, <2>1, <2>2 DEF LifeEnd
    <3> QED BY <3>1, <3>2, <3>3 DEF Life
  <2>6. Tokens(j)' BY <1>1 DEF Tokens
  <2>7. Parts(j)'
    <3>1. (\A k \in DOMAIN sc.files[j] :
              disk[<<j, k>>].part # None =>
                  disk[<<j, k>>].digest \/ <<j, k>> \in faulted)'
      BY <1>1, <1>4 DEF Parts
    <3> QED BY <1>1, <1>9, <2>1, <2>2, <3>1 DEF Parts
  <2>8. ASSUME Sane' PROVE JobInv(j)'
    <3>1. Sane BY <1>1, <1>2, <2>8 DEF Sane
    <3>2. JobInv(j) BY <1>3, <3>1
    <3>3. SameFacts(j)
      <4>1. SameDisk(j) BY <1>1 DEF SameDisk
      <4> QED BY <4>1, SameDiskFacts
    <3>4. breaks' # 0 BY <1>1, <1>2
    <3>5. Touch(j)'
      <4>1. ASSUME j \in ClientJobs, NEW n, n = FileNum(j)
            PROVE  /\ Untouched(j, n)
                   /\ sc.upload[j] => UnsentAt(j, n)
                   /\ ~sc.upload[j] => WholeBefore(j, n)
        <5>1. CASE sc.upload[j]
          BY <1>5, <3>2, <4>1, <5>1 DEF JobInv, Touch, FileNum
        <5>2. CASE ~sc.upload[j]
          BY <1>5, <3>2, <4>1, <5>2 DEF JobInv, Touch, FileNum, Live, At
        <5> QED BY <5>1, <5>2
      <4>2. state'[j] = "new" => Untouched(j, 0) /\ UnsentAt(j, 0)
        BY <2>3, <3>2 DEF JobInv, Touch
      <4>3. ASSUME j \in DOMAIN saved'
            PROVE  /\ Untouched(j, saved[j])'
                   /\ sc.upload[j] => UnsentAt(j, saved[j])'
                   /\ ~sc.upload[j] => WholeBefore(j, saved[j])'
        <5>1. PICK n : n = FileNum(j) /\ n = saved'[j] /\ j \in ClientJobs
          BY <1>7, <4>3
        <5>2. /\ Untouched(j, n)' /\ (sc.upload[j] => UnsentAt(j, n)')
              /\ (~sc.upload[j] => WholeBefore(j, n)')
          BY <3>3, <4>1, <5>1 DEF SameFacts
        <5> QED BY <5>1, <5>2
      <4> QED BY <1>1, <2>2, <3>3, <4>2, <4>3 DEF Touch, SameFacts
    <3>6. Resumed(j)' BY <2>2, <3>4 DEF Resumed
    <3>7. Torn(j)' BY <1>1, <3>2, <3>3 DEF JobInv, Torn, IsPrefixOf, SameFacts
    <3>8. Chain(j)' BY <1>9, <2>1, <2>2 DEF Chain
    <3>9. Reached(j)' BY <1>1 DEF Reached
    <3>10. Answers(j)' BY <1>1 DEF Answers
    <3>11. Keeps(j)'
      <4>1. Sent(Data(j)', j) = {} BY <1>9, <2>1
      <4> QED BY <1>1, <2>2, <3>2, <3>3, <4>1 DEF JobInv, Keeps, SameFacts
    <3>12. Ending(j)'
      <4>1. AllWhole(j) => AllWhole(j)' BY <1>1, <3>3 DEF AllWhole, SameFacts
      <4> QED BY <1>1, <2>1, <2>2, <2>3, <3>2, <4>1 DEF JobInv, Ending
    <3>13. Leftover(j)' BY <3>4 DEF Leftover
    <3> QED BY <3>5, <3>6, <3>7, <3>8, <3>9, <3>10, <3>11, <3>12, <3>13
            DEF JobInv
  <2> QED BY <2>5, <2>6, <2>7, <2>8
<1> QED BY <1>1, <1>10, <1>11, <1>12, InvIs

\* load_last_jobs.
LEMMA ReconnectStep ==
    ASSUME Inv, Reconnect
    PROVE  Inv'
<1>1. /\ FTTypeOK /\ ~up /\ up' = TRUE
      /\ UNCHANGED <<sc, breaks, disk, c2s, s2c, dialog, saved, from, kept,
                     lost,
                     faulted>>
  BY DEF Inv, Reconnect, history
<1>2. /\ breaks > 0 /\ c2s = <<>> /\ s2c = <<>> /\ dialog = None
      /\ reads = NoReads
      /\ \A j \in Jobs : /\ state[j] \notin {"running", "added"}
                         /\ state[j] = "saved" <=> j \in DOMAIN saved
      /\ \A j \in Jobs : Life(j) /\ (Sane => JobInv(j))
      /\ sc \in Scenarios
  BY <1>1 DEF Inv, LifeDown, FTTypeOK, TypeUser
<1>3. \A j \in Jobs : sc.upload[j] \in BOOLEAN BY <1>2, Scenario
<1>4. \A j \in Jobs : Parts(j) BY DEF Inv
<1> DEFINE ups == {j \in DOMAIN saved : sc.upload[j]}
<1>5. /\ ups \subseteq Jobs /\ DOMAIN saved \subseteq Jobs
      /\ \A j \in DOMAIN saved : saved[j] \in Nat
  BY <1>1 DEF FTTypeOK, TypeUser
<1>6. /\ DOMAIN rjob' = ups
      /\ \A j \in ups :
            /\ rjob'[j] \in ReadJobs /\ rjob'[j].file_num = saved[j]
            /\ rjob'[j].pos = 0 /\ rjob'[j].last
            /\ ~rjob'[j].confirmed /\ ~rjob'[j].waiting /\ ~rjob'[j].skipped
  <2>1. rjob' = [j \in ups |-> [NewRead(saved[j]) EXCEPT !.last = TRUE]]
    BY DEF Reconnect
  <2>2. ASSUME NEW n \in Nat
        PROVE  LET r == [NewRead(n) EXCEPT !.last = TRUE] IN
               /\ r \in ReadJobs /\ r.file_num = n /\ r.pos = 0 /\ r.last
               /\ ~r.confirmed /\ ~r.waiting /\ ~r.skipped
    BY DEF NewRead, ReadJobs
  <2>3. ASSUME NEW j \in ups
        PROVE  /\ rjob'[j] \in ReadJobs /\ rjob'[j].file_num = saved[j]
               /\ rjob'[j].pos = 0 /\ rjob'[j].last
               /\ ~rjob'[j].confirmed /\ ~rjob'[j].waiting /\ ~rjob'[j].skipped
    <3>1. PICK n \in Nat : n = saved[j] BY <1>5
    <3>2. rjob'[j] = [NewRead(n) EXCEPT !.last = TRUE] BY <2>1, <3>1
    <3> QED BY <2>2, <3>1, <3>2
  <2> QED BY <2>1, <2>3
<1>7. /\ DOMAIN wjob' = DOMAIN saved \ ups
      /\ \A j \in DOMAIN saved \ ups :
            /\ wjob'[j] \in WriteJobs /\ wjob'[j].file_num = saved[j]
            /\ ~wjob'[j].open /\ ~wjob'[j].listed
  <2>1. wjob' = [j \in DOMAIN saved \ ups |->
                    [NewWrite(saved[j], FALSE) EXCEPT !.last = TRUE]]
    BY DEF Reconnect
  <2>2. ASSUME NEW n \in Nat
        PROVE  LET w == [NewWrite(n, FALSE) EXCEPT !.last = TRUE] IN
               /\ w \in WriteJobs /\ w.file_num = n /\ ~w.open /\ ~w.listed
    BY DEF NewWrite, WriteJobs
  <2>3. ASSUME NEW j \in DOMAIN saved \ ups
        PROVE  /\ wjob'[j] \in WriteJobs /\ wjob'[j].file_num = saved[j]
               /\ ~wjob'[j].open /\ ~wjob'[j].listed
    <3>1. PICK n \in Nat : n = saved[j] BY <1>5
    <3>2. wjob'[j] = [NewWrite(n, FALSE) EXCEPT !.last = TRUE] BY <2>1, <3>1
    <3> QED BY <2>2, <3>1, <3>2
  <2> QED BY <2>1, <2>3
<1>8. PICK order \in [1 .. Cardinality(ups) -> ups] :
         /\ \A i, k \in DOMAIN order : order[i] = order[k] => i = k
         /\ reads' = [reads EXCEPT !.client = order]
  BY DEF Reconnect
<1>9. order \in Seq(ups)
  <2>1. IsFiniteSet(Jobs) BY <1>2, FileTransferAssumption DEF ScenarioOK, Jobs
  <2>2. IsFiniteSet(ups) BY <1>5, <2>1, FS_Subset
  <2>3. Cardinality(ups) \in Nat BY <2>2, FS_CardinalityType
  <2> HIDE DEF ups
  <2> QED BY <2>3
<1>10. /\ state' \in [Jobs -> States]
       /\ \A j \in Jobs : IF j \in DOMAIN saved THEN state'[j] = "added"
                          ELSE state'[j] = state[j]
  <2>1. state \in [Jobs -> States] BY <1>1 DEF FTTypeOK, TypeUser
  <2>2. state' = [j \in Jobs |-> IF j \in DOMAIN saved THEN "added" ELSE state[j]]
    BY DEF Reconnect
  <2> QED BY <2>1, <2>2 DEF States
<1>11. ASSUME NEW j \in Jobs
       PROVE  /\ j \in DOMAIN rjob' <=> j \in DOMAIN saved /\ sc.upload[j]
              /\ j \in DOMAIN wjob' <=> j \in DOMAIN saved /\ ~sc.upload[j]
  BY <1>6, <1>7
<1>12. TypeQueues' /\ \A j : Data(j)' = <<>> /\ Back(j)' = <<>>
  BY <1>1, <1>2, QueuesEmpty
<1>13. FTTypeOK'
  <2>1. Jobs' = Jobs BY <1>1 DEF Jobs
  <2>2. TypeJobs' BY <1>5, <1>6, <1>7, <2>1 DEF TypeJobs
  <2>3. TypeReads'
    <3>1. /\ reads' \in [{"client", "server"} -> Seq(Jobs)]
          /\ reads'["client"] = order /\ reads'["server"] = <<>>
      <4>1. order \in Seq(Jobs) BY <1>5, <1>9
      <4>2. reads = [side \in {"client", "server"} |-> <<>>] BY <1>2 DEF NoReads
      <4>3. reads' = [reads EXCEPT !["client"] = order] BY <1>8
      <4>4. reads \in [{"client", "server"} -> Seq(Jobs)]
        BY <1>1 DEF FTTypeOK, TypeReads
      <4>5. reads["server"] = <<>> BY <4>2
      <4> HIDE DEF ups
      <4> QED BY <4>1, <4>3, <4>4, <4>5
    <3>2. \A i \in DOMAIN order : order[i] \in ups BY <1>8
    <3>3. \A i \in DOMAIN order :
             order[i] \in DOMAIN rjob' /\ ReadSide(order[i])' = "client"
      BY <1>1, <1>6, <3>2 DEF ReadSide
    <3>4. DOMAIN <<>> = {} OBVIOUS
    <3> HIDE DEF ups
    <3> QED BY <1>8, <2>1, <3>1, <3>3, <3>4 DEF TypeReads
  <2>4. TypeUser'
    BY <1>1, <1>2, <1>10, <2>1 DEF FTTypeOK, TypeUser
  <2> QED BY <1>1, <1>12, <2>2, <2>3, <2>4, HistorySame, FilesSame DEF FTTypeOK
<1>14. LifeDown' BY <1>1 DEF LifeDown
<1> HIDE DEF ups
<1>15. ASSUME NEW j \in Jobs
       PROVE  Life(j)' /\ Tokens(j)' /\ Parts(j)' /\ (Sane' => JobInv(j)')
  <2>1. /\ Sent(<<>>, j) = {} /\ Clear(<<>>, j)
        /\ \A T : Leads(<<>>, j, T) /\ Once(<<>>, j, T) /\ ~Has(<<>>, j, T)
        /\ Trails(<<>>, j) /\ OffsetFirst(<<>>, j)
        /\ \A m : ~Opens(<<>>, j, m) /\ ~Closes(<<>>, j, m)
        /\ \A m, n : ~Follows(<<>>, j, m, n)
    BY NothingSent
  <2>2. /\ j \in DOMAIN rjob' =>
              /\ j \in DOMAIN saved /\ sc.upload[j] /\ state'[j] = "added"
              /\ rjob'[j].file_num = saved[j]
              /\ rjob'[j].pos = 0 /\ rjob'[j].last
              /\ ~rjob'[j].confirmed /\ ~rjob'[j].waiting /\ ~rjob'[j].skipped
        /\ j \in DOMAIN wjob' =>
              /\ j \in DOMAIN saved /\ ~sc.upload[j] /\ state'[j] = "added"
              /\ wjob'[j].file_num = saved[j]
              /\ ~wjob'[j].open /\ ~wjob'[j].listed
    BY <1>6, <1>7, <1>10, <1>11
  <2>3. /\ Live(j)' <=> j \in DOMAIN wjob'
        /\ j \in DOMAIN wjob' => At(j)' = saved[j]
        /\ ~Open(j)' /\ ~Shown(j)'
    BY <1>1, <1>2, <2>1, <2>2 DEF Live, At, Open, Shown
  <2>4. /\ state'[j] # "saved"
        /\ state'[j] # "added" => state'[j] = state[j] /\ j \notin DOMAIN saved
        /\ state'[j] = "added" => j \in DOMAIN saved
    BY <1>2, <1>10
  <2>5. Life(j)'
    <3>1. LifeIdle(j)'
      BY <1>1, <1>2, <1>3, <1>11, <2>1, <2>2, <2>3, <2>4 DEF Life, LifeIdle
    <3>2. LifeStart(j)' BY <1>1, <1>2, <2>1, <2>2 DEF LifeStart
    <3>3. LifeEnd(j)' BY <1>1, <1>2, <1>12, <2>1, <2>2, <2>3 DEF LifeEnd
    <3> QED BY <3>1, <3>2, <3>3 DEF Life
  <2>6. Tokens(j)'
    BY <1>12, <2>1, <2>2, <2>3 DEF Tokens
  <2>7. Parts(j)'
    <3>1. (\A k \in DOMAIN sc.files[j] :
              disk[<<j, k>>].part # None =>
                  disk[<<j, k>>].digest \/ <<j, k>> \in faulted)'
      BY <1>1, <1>4 DEF Parts
    <3> QED BY <1>12, <2>1, <2>2, <2>3, <3>1 DEF Parts
  <2>8. ASSUME Sane' PROVE JobInv(j)'
    <3>1. Sane BY <1>1, <2>8 DEF Sane
    <3>2. JobInv(j) BY <1>2, <3>1
    <3>3. SameFacts(j)
      <4>1. SameDisk(j) BY <1>1 DEF SameDisk
      <4> QED BY <4>1, SameDiskFacts
    <3>4. breaks' # 0 /\ breaks # 0 BY <1>1, <1>2
    <3>5. Touch(j)'
      <4>1. ASSUME j \in DOMAIN saved, NEW n, n = saved[j]
            PROVE  /\ Untouched(j, n)'
                   /\ sc.upload[j] => UnsentAt(j, n)'
                   /\ ~sc.upload[j] => WholeBefore(j, n)'
        BY <1>1, <3>2, <3>3, <4>1 DEF JobInv, Touch, SameFacts
      <4>2. state'[j] = "new" => Untouched(j, 0)' /\ UnsentAt(j, 0)'
        BY <2>4, <3>2, <3>3 DEF JobInv, Touch, SameFacts
      <4>3. Live(j)' => Untouched(j, At(j))' /\ WholeBefore(j, At(j))'
        <5>1. SUFFICES ASSUME j \in DOMAIN wjob'
                       PROVE  Untouched(j, At(j))' /\ WholeBefore(j, At(j))'
          BY <2>3
        <5>2. PICK n : n = saved[j] /\ n = At(j)' BY <2>3, <5>1
        <5>3. Untouched(j, n)' /\ WholeBefore(j, n)' BY <2>2, <4>1, <5>1, <5>2
        <5> QED BY <5>2, <5>3
      <4>4. j \in DOMAIN rjob' =>
               Untouched(j, rjob[j].file_num)' /\ UnsentAt(j, rjob[j].file_num)'
        <5>1. SUFFICES ASSUME j \in DOMAIN rjob'
                       PROVE  /\ Untouched(j, rjob[j].file_num)'
                              /\ UnsentAt(j, rjob[j].file_num)'
          OBVIOUS
        <5>2. PICK n : n = saved[j] /\ n = rjob'[j].file_num BY <2>2, <5>1
        <5>3. Untouched(j, n)' /\ UnsentAt(j, n)' BY <2>2, <4>1, <5>1, <5>2
        <5> QED BY <5>2, <5>3
      <4> QED BY <1>1, <4>2, <4>3, <4>4 DEF Touch
    <3>6. Resumed(j)' BY <2>2, <2>3, <3>4 DEF Resumed
    <3>7. Torn(j)' BY <1>1, <3>2, <3>3 DEF JobInv, Torn, IsPrefixOf, SameFacts
    <3>8. Chain(j)'
      <4>1. Sent(Data(j)', j) = {} BY <1>12, <2>1
      <4>2. ~(Live(j)' /\ j \in DOMAIN rjob') BY <2>2, <2>3
      <4> QED BY <4>1, <4>2 DEF Chain
    <3>9. Reached(j)'
      <4>1. Sent(Data(j)', j) = {} BY <1>12, <2>1
      <4>2. ~(Live(j)' /\ j \in DOMAIN rjob') BY <2>2, <2>3
      <4> QED BY <4>1, <4>2 DEF Reached
    <3>10. Answers(j)'
      <4>1. Sent(Back(j)', j) = {} BY <1>12, <2>1
      <4>2. ~(Live(j)' /\ j \in DOMAIN rjob') BY <2>2, <2>3
      <4> QED BY <4>1, <4>2 DEF Answers
    <3>11. Keeps(j)'
      <4>1. Sent(Data(j)', j) = {} BY <1>12, <2>1
      <4> QED BY <1>1, <2>2, <2>3, <3>2, <3>3, <3>4, <4>1
              DEF JobInv, Keeps, SameFacts
    <3>12. Ending(j)'
      <4>1. AllWhole(j) => AllWhole(j)' BY <1>1, <3>3 DEF AllWhole, SameFacts
      <4> QED BY <1>1, <1>2, <2>1, <2>2, <2>3, <2>4, <3>2, <4>1
              DEF JobInv, Ending
    <3>13. Leftover(j)' BY <3>4 DEF Leftover
    <3> QED BY <3>5, <3>6, <3>7, <3>8, <3>9, <3>10, <3>11, <3>12, <3>13
            DEF JobInv
  <2> QED BY <2>5, <2>6, <2>7, <2>8
<1> QED BY <1>1, <1>13, <1>14, <1>15, InvIs

-----------------------------------------------------------------------------
(* The inductive invariant. *)

\* Nothing has begun: no job runs, nothing was sent, and the files are as they
\* were.
LEMMA InitInv == FTInit => Inv
<1>1. SUFFICES ASSUME FTInit PROVE Inv OBVIOUS
<1>2. /\ sc \in Scenarios /\ up = TRUE /\ breaks = 0
      /\ DOMAIN rjob = {} /\ DOMAIN wjob = {} /\ DOMAIN saved = {}
      /\ reads = NoReads /\ c2s = <<>> /\ s2c = <<>> /\ dialog = None
      /\ state = [j \in Jobs |-> "new"] /\ from = [j \in Jobs |-> 1]
      /\ kept = {} /\ lost = {} /\ faulted = {}
  BY <1>1 DEF FTInit
<1>3. ASSUME NEW f \in Files
      PROVE  /\ disk[f] \in Entries /\ ~disk[f].spoilt
             /\ disk[f].digest <=> disk[f].part # None
             /\ f \notin sc.stale => disk[f].part = None
             /\ disk[f].final = IF f \in sc.old THEN Old ELSE None
  <2>1. disk[f] = [final |-> IF f \in sc.old THEN Old ELSE None,
                   part |-> IF f \in sc.stale THEN <<1>> ELSE None,
                   digest |-> f \in sc.stale, spoilt |-> FALSE]
    BY <1>1 DEF FTInit
  <2>2. Old \in Seq(Nat) /\ <<1>> \in Seq(Nat) BY DEF Old
  <2>3. <<1>> # None BY <2>2, NotNone
  <2>4. PICK c \in Contents : c = IF f \in sc.old THEN Old ELSE None
    BY <2>2 DEF Contents
  <2>5. CASE f \in sc.stale
    <3>1. disk[f] = [final |-> c, part |-> <<1>>, digest |-> TRUE,
                     spoilt |-> FALSE]
      BY <2>1, <2>4, <2>5
    <3> QED BY <2>2, <2>3, <2>4, <2>5, <3>1 DEF Contents, Entries
  <2>6. CASE f \notin sc.stale
    <3>1. (f \in sc.stale) = FALSE BY <2>6
    <3>2. disk[f] = [final |-> c, part |-> None, digest |-> FALSE,
                     spoilt |-> FALSE]
      BY <2>1, <2>4, <3>1, Zenon
    <3> QED BY <2>4, <2>6, <3>2 DEF Contents, Entries
  <2> QED BY <2>5, <2>6
<1>4. FTTypeOK
  <2>1. TypeUser
    <3>1. sc.breaks \in Nat BY <1>2, FileTransferAssumption DEF ScenarioOK
    <3> QED BY <1>2, <3>1 DEF TypeUser, States
  <2>2. TypeHistory BY <1>2 DEF TypeHistory
  <2>3. TypeJobs BY <1>2 DEF TypeJobs
  <2>4. DiskOK(disk)
    <3>1. disk = [f \in Files |-> disk[f]] BY <1>1 DEF FTInit
    <3> QED BY <1>3, <3>1 DEF DiskOK
  <2>5. TypeQueues
    <3>1. \A j : Sent(<<>>, j) = {} BY NothingSent
    <3>2. \A j : Data(j) = <<>> /\ Back(j) = <<>> BY <1>2 DEF Data, Back
    <3> QED BY <1>2, <3>1, <3>2 DEF TypeQueues
  <2>6. TypeReads
    <3>1. /\ reads \in [{"client", "server"} -> Seq(Jobs)]
          /\ \A side \in {"client", "server"} : reads[side] = <<>>
      BY <1>2 DEF NoReads
    <3>2. \A side \in {"client", "server"} : DOMAIN reads[side] = {} BY <3>1
    <3> QED BY <3>1, <3>2 DEF TypeReads
  <2> QED BY <2>1, <2>2, <2>3, <2>4, <2>5, <2>6 DEF FTTypeOK
<1>5. LifeDown BY <1>2 DEF LifeDown
<1>6. ASSUME NEW j \in Jobs
      PROVE  Life(j) /\ Tokens(j) /\ Parts(j) /\ (Sane => JobInv(j))
  <2>1. /\ Sent(<<>>, j) = {} /\ Clear(<<>>, j)
        /\ \A T : Leads(<<>>, j, T) /\ Once(<<>>, j, T) /\ ~Has(<<>>, j, T)
        /\ Trails(<<>>, j) /\ OffsetFirst(<<>>, j)
        /\ \A m : ~Opens(<<>>, j, m) /\ ~Closes(<<>>, j, m)
        /\ \A m, n : ~Follows(<<>>, j, m, n)
    BY NothingSent
  <2>2. /\ Data(j) = <<>> /\ Back(j) = <<>> /\ j \notin DOMAIN rjob
        /\ j \notin DOMAIN wjob /\ state[j] = "new" /\ from[j] = 1
    BY <1>2 DEF Data, Back
  <2>3. ~Live(j) /\ ~Open(j) /\ ~Shown(j)
    BY <1>2, <2>1, <2>2 DEF Live, Open, Shown
  <2>4. Life(j)
    <3>1. LifeIdle(j) BY <1>2, <2>1, <2>2, <2>3 DEF LifeIdle
    <3>2. LifeStart(j) BY <1>2, <2>1, <2>2 DEF LifeStart
    <3>3. LifeEnd(j) BY <1>2, <2>1, <2>2, <2>3 DEF LifeEnd
    <3> QED BY <3>1, <3>2, <3>3 DEF Life
  <2>5. Tokens(j) BY <2>2 DEF Tokens
  <2>6. Parts(j)
    <3>1. ASSUME NEW k \in DOMAIN sc.files[j], disk[<<j, k>>].part # None
          PROVE  disk[<<j, k>>].digest
      <4>1. <<j, k>> \in Files BY <1>2, <3>1, Scenario
      <4> QED BY <1>3, <3>1, <4>1
    <3> QED BY <2>1, <2>2, <2>3, <3>1 DEF Parts
  <2>7. ASSUME Sane PROVE JobInv(j)
    <3>1. ASSUME NEW k \in DOMAIN sc.files[j]
          PROVE  /\ disk[<<j, k>>].part = None /\ Orig(<<j, k>>)
                 /\ ~disk[<<j, k>>].spoilt
                 /\ disk[<<j, k>>].final = None \/ disk[<<j, k>>].final = Old
      <4>1. <<j, k>> \in Files BY <1>2, <3>1, Scenario
      <4>2. sc.stale = {} BY <2>7 DEF Sane
      <4> QED BY <1>3, <4>1, <4>2 DEF Orig
    <3>2. Touch(j)
      <4>1. Untouched(j, 0) BY <3>1 DEF Untouched
      <4>2. UnsentAt(j, 0) BY <1>2, <3>1 DEF UnsentAt
      <4> QED BY <1>2, <2>2, <2>3, <4>1, <4>2 DEF Touch
    <3>3. Resumed(j) BY <2>2, <2>3 DEF Resumed
    <3>4. Torn(j) BY <3>1 DEF Torn
    <3>5. Chain(j) BY <2>1, <2>2 DEF Chain
    <3>6. Reached(j) BY <2>2 DEF Reached
    <3>7. Answers(j) BY <2>2 DEF Answers
    <3>8. Keeps(j) BY <1>2, <2>1, <2>2, <2>3 DEF Keeps
    <3>9. Ending(j) BY <1>2, <2>1, <2>2, <2>3 DEF Ending
    <3>10. Leftover(j) BY <1>2, <2>1, <2>2, <3>1 DEF Leftover
    <3> QED BY <3>2, <3>3, <3>4, <3>5, <3>6, <3>7, <3>8, <3>9, <3>10 DEF JobInv
  <2> QED BY <2>4, <2>5, <2>6, <2>7
<1> QED BY <1>4, <1>5, <1>6 DEF Inv

\* Every step keeps it.
LEMMA StepInv ==
    ASSUME Inv, [FTNext]_ftVars
    PROVE  Inv'
<1>1. CASE Server
  BY <1>1, OnSendStep, OnReceiveStep, OnCheckDigestStep, OnConfirmServerStep,
     OnBlockServerStep, OnDoneServerStep, OnErrorServerStep, OnCancelStep
     DEF Server
<1>2. CASE Client
  BY <1>2, OnDirStep, OnDigestStep, OnAskStep, OnConfirmClientStep,
     OnBlockClientStep, OnDoneClientStep, OnErrorClientStep DEF Client
<1>3. CASE Answer
  <2>1. PICK v \in {0, Skip}, remember \in BOOLEAN :
           SetConfirmOverrideFile(v, remember)
    BY <1>3 DEF Answer
  <2> QED BY <2>1, SetConfirmStep
<1>4. CASE User
  <2>1. ASSUME NEW j \in Jobs, SendFiles(j) \/ CancelJob(j) \/ ResumeJob(j)
        PROVE  Inv'
    BY <2>1, SendFilesStep, CancelJobStep, ResumeJobStep
  <2> QED BY <1>4, <2>1, ReconnectStep, ConnectionLostStep DEF User
<1>5. CASE \E side \in {"client", "server"} : FileTimer(side)
  <2>1. PICK side \in {"client", "server"} : FileTimer(side) BY <1>5
  <2>2. PICK j \in Jobs : \/ ReadJob(side, j) \/ ReadFails(side, j)
                          \/ DigestFails(side, j) \/ ReadEnds(side, j)
    BY <2>1 DEF FileTimer
  <2> QED BY <2>2, ReadJobStep, ReadFailsStep, DigestFailsStep, ReadEndsStep
<1>6. CASE UNCHANGED ftVars BY <1>6, StutterStep
<1> QED BY <1>1, <1>2, <1>3, <1>4, <1>5, <1>6 DEF FTNext

\* What Inv says of a file, for the properties.
LEMMA FileFacts ==
    ASSUME Inv, Sane, NEW f \in Files
    PROVE  \E j \in Jobs, k \in Nat :
              /\ k \in DOMAIN sc.files[j] /\ f = <<j, k>> /\ f[1] = j
              /\ f[2] = k
              /\ JobInv(j) /\ Life(j) /\ sc.upload[j] \in BOOLEAN
              /\ disk[f].digest => disk[f].part # None
              /\ k <= Len(sc.files[j]) /\ Len(sc.files[j]) \in Nat
<1>1. sc \in Scenarios /\ DiskOK(disk) BY DEF Inv, FTTypeOK, TypeUser
<1>2. f = <<f[1], f[2]>> /\ f[1] \in Jobs /\ f[2] \in DOMAIN sc.files[f[1]]
  BY FileIs
<1>3. PICK j \in Jobs : j = f[1] BY <1>2
<1>4. PICK k \in DOMAIN sc.files[j] : k = f[2] BY <1>2, <1>3
<1>5. /\ sc.upload[j] \in BOOLEAN /\ Len(sc.files[j]) \in Nat
      /\ DOMAIN sc.files[j] = 1 .. Len(sc.files[j])
  BY <1>1, Scenario
<1>6. JobInv(j) /\ Life(j) BY DEF Inv
<1>7. disk[f].digest => disk[f].part # None BY <1>1 DEF DiskOK
<1>8. k \in DOMAIN sc.files[j] /\ k \in Nat /\ k <= Len(sc.files[j])
  BY <1>4, <1>5
<1> QED BY <1>2, <1>3, <1>4, <1>5, <1>6, <1>7, <1>8

-----------------------------------------------------------------------------
(* The theorems. *)

\* Inv holds in every state: whatever the files, the jobs, the losses of the
\* connection, the failures and the answers.
THEOREM FileTransferInvariant == FTSpec => []Inv
<1>1. FTInit => Inv BY InitInv
<1>2. Inv /\ [FTNext]_ftVars => Inv' BY StepInv
<1> QED BY <1>1, <1>2, PTL DEF FTSpec

\* No file is torn: what is received of a file is a first part of it, in its
\* order, across skipped files, offsets and resumed jobs.
THEOREM NothingIsTorn == FTSpec => []NothingTorn
<1>1. ASSUME Inv PROVE NothingTorn
  <2>1. SUFFICES ASSUME Sane, NEW f \in Files \ faulted
                 PROVE  /\ disk[f].part # None => IsPrefixOf(disk[f].part, f)
                        /\ \/ disk[f].final \in {None, Whole(f)}
                           \/ disk[f].final = Old
                        /\ disk[f].spoilt => LaterFails(f)
    BY DEF NothingTorn
  <2>2. PICK j \in Jobs, k \in Nat :
           k \in DOMAIN sc.files[j] /\ f = <<j, k>> /\ JobInv(j)
    BY <1>1, <2>1, FileFacts
  <2> QED BY <2>1, <2>2 DEF JobInv, Torn
<1> QED BY <1>1, FileTransferInvariant, PTL

\* A job that is reported as done has copied its files, at both ends and however
\* often it was resumed.
THEOREM DoneWasCopied == FTSpec => []DoneIsWhole
<1>1. ASSUME Inv PROVE DoneIsWhole
  <2>1. SUFFICES ASSUME Sane, NEW f \in Files \ (faulted \cup kept),
                        state[f[1]] = "done", Size(f[1], f[2]) # Dir,
                        sc.upload[f[1]] => f[2] >= from[f[1]],
                        ~Shadowed(f[1], f[2], Len(sc.files[f[1]]))
                 PROVE  /\ disk[f].final = Whole(f)
                        /\ disk[f].spoilt => LaterFails(f)
    BY DEF DoneIsWhole
  <2>2. PICK j \in Jobs, k \in Nat :
           /\ k \in DOMAIN sc.files[j] /\ f = <<j, k>> /\ f[1] = j
           /\ f[2] = k /\ JobInv(j)
           /\ sc.upload[j] \in BOOLEAN
           /\ k <= Len(sc.files[j]) /\ Len(sc.files[j]) \in Nat
    BY <1>1, <2>1, FileFacts
  <2>3. WholeBefore(j, Len(sc.files[j]) + 1)
    BY <2>1, <2>2 DEF JobInv, Ending, Undated, AllWhole
  <2>4. k < Len(sc.files[j]) + 1 BY <2>2
  <2>5. disk[<<j, k>>].final = Whole(<<j, k>>) \/ Shadowed(j, k, Len(sc.files[j]) + 1)
    BY <2>1, <2>2, <2>3, <2>4 DEF WholeBefore
  <2>6. Shadowed(j, k, Len(sc.files[j]) + 1) => Shadowed(j, k, Len(sc.files[j]))
    <3>1. DOMAIN sc.files[j] = 1 .. Len(sc.files[j])
      <4>1. sc \in Scenarios BY <1>1 DEF Inv, FTTypeOK, TypeUser
      <4> QED BY <4>1, Scenario
    <3>2. \A x \in DOMAIN sc.files[j] : x <= Len(sc.files[j]) BY <2>2, <3>1
    <3> QED BY <3>2 DEF Shadowed
  <2>7. disk[f].spoilt => LaterFails(f) BY <2>1, <2>2 DEF JobInv, Torn
  <2> QED BY <2>1, <2>2, <2>5, <2>6, <2>7
<1> QED BY <1>1, FileTransferInvariant, PTL

\* A file the user said to keep is as it was.
THEOREM KeptIsKept == FTSpec => []KeptAsItWas
<1>1. ASSUME Inv PROVE KeptAsItWas
  <2>1. SUFFICES ASSUME Sane, NEW f \in kept \ faulted PROVE Orig(f)
    BY DEF KeptAsItWas
  <2>2. f \in Files BY <1>1, <2>1 DEF Inv, FTTypeOK, TypeHistory
  <2>3. PICK j \in Jobs, k \in Nat :
           k \in DOMAIN sc.files[j] /\ f = <<j, k>> /\ JobInv(j)
    BY <1>1, <2>1, <2>2, FileFacts
  <2> QED BY <2>1, <2>3 DEF JobInv, Keeps
<1> QED BY <1>1, FileTransferInvariant, PTL

\* A job that is over leaves nothing behind.
THEOREM NothingIsLeft == FTSpec => []NothingLeft
<1>1. ASSUME Inv PROVE NothingLeft
  <2>1. SUFFICES ASSUME Sane, NEW f \in Files,
                        state[f[1]] \in {"cancelled", "done"},
                        c2s = <<>>, s2c = <<>>, breaks = 0, faulted = {},
                        ~Shadowed(f[1], f[2], Len(sc.files[f[1]]))
                 PROVE  disk[f].part = None /\ ~disk[f].digest
    BY DEF NothingLeft
  <2>2. PICK j \in Jobs, k \in Nat :
           /\ k \in DOMAIN sc.files[j] /\ f = <<j, k>> /\ f[1] = j /\ f[2] = k
           /\ JobInv(j) /\ Life(j) /\ sc.upload[j] \in BOOLEAN
           /\ disk[f].digest => disk[f].part # None
    BY <1>1, <2>1, FileFacts
  <2>3. ~Live(j)
    <3>1. ~Has(c2s, j, {"cancel"}) BY <2>1, NothingSent
    <3> QED BY <2>1, <2>2, <3>1 DEF JobInv, Ending, Life, LifeEnd
  <2> QED BY <2>1, <2>2, <2>3 DEF JobInv, Leftover
<1> QED BY <1>1, FileTransferInvariant, PTL

-----------------------------------------------------------------------------
(* PortForward: what the two ends of a queue do to Carries, Ahead and      *)
(* OnlyOnce.                                                               *)

\* What a sender adds is on its way, and nothing else is that was not before.
LEMMA CarriesAppend ==
    ASSUME NEW S, NEW q \in Seq(S), NEW x \in S, NEW m
    PROVE  Carries(Append(q, x), m) <=> Carries(q, m) \/ x = m
<1>1. Len(q) \in Nat /\ Len(Append(q, x)) = Len(q) + 1 OBVIOUS
<1>2. \A i \in 1..Len(q) : Append(q, x)[i] = q[i] OBVIOUS
<1>3. Append(q, x)[Len(q) + 1] = x OBVIOUS
<1>4. 1..(Len(q) + 1) = (1..Len(q)) \cup {Len(q) + 1} BY <1>1
<1> QED BY <1>1, <1>2, <1>3, <1>4 DEF Carries

\* What a receiver takes is no longer on its way, unless it is there twice.
LEMMA CarriesTail ==
    ASSUME NEW S, NEW q \in Seq(S), q # << >>, NEW m
    PROVE  Carries(q, m) <=> Head(q) = m \/ Carries(Tail(q), m)
<1>1. Len(q) \in Nat \ {0} /\ Head(q) = q[1] /\ Len(Tail(q)) = Len(q) - 1
      /\ \A i \in 1..(Len(q) - 1) : Tail(q)[i] = q[i + 1]
  OBVIOUS
<1>2. ASSUME Carries(q, m), Head(q) # m PROVE Carries(Tail(q), m)
  <2>1. PICK i \in 1..Len(q) : q[i] = m BY <1>2 DEF Carries
  <2>2. i - 1 \in 1..(Len(q) - 1) /\ Tail(q)[i - 1] = m BY <1>1, <1>2, <2>1
  <2> QED BY <1>1, <2>2 DEF Carries
<1>3. ASSUME Head(q) = m PROVE Carries(q, m) BY <1>1, <1>3 DEF Carries
<1>4. ASSUME Carries(Tail(q), m) PROVE Carries(q, m)
  <2>1. PICK i \in 1..(Len(q) - 1) : Tail(q)[i] = m BY <1>1, <1>4 DEF Carries
  <2>2. i + 1 \in 1..Len(q) /\ q[i + 1] = m BY <1>1, <2>1
  <2> QED BY <2>2 DEF Carries
<1> QED BY <1>2, <1>3, <1>4

\* A message that is ahead stays so when others are added.
LEMMA AheadAppend ==
    ASSUME NEW S, NEW q \in Seq(S), NEW x \in S, NEW m, NEW n
    PROVE  /\ Ahead(q, m, n) => Ahead(Append(q, x), m, n)
           /\ ~Carries(q, n) /\ x = m => Ahead(Append(q, x), m, n)
<1>1. Len(Append(q, x)) = Len(q) + 1 /\ Append(q, x)[Len(q) + 1] = x
      /\ Len(q) \in Nat /\ \A i \in 1..Len(q) : Append(q, x)[i] = q[i]
  OBVIOUS
<1>2. ASSUME Ahead(q, m, n) PROVE Ahead(Append(q, x), m, n)
  <2>1. PICK i \in 1..Len(q) : q[i] = m /\ \A j \in 1..(i - 1) : q[j] # n
    BY <1>2 DEF Ahead
  <2>2. i \in 1..Len(Append(q, x)) /\ \A j \in 1..(i - 1) : j \in 1..Len(q)
    BY <1>1, <2>1
  <2> QED BY <1>1, <2>1, <2>2 DEF Ahead
<1>3. ASSUME ~Carries(q, n), x = m PROVE Ahead(Append(q, x), m, n)
  <2>1. /\ Append(q, x)[Len(q) + 1] = m /\ Len(q) + 1 \in 1..Len(Append(q, x))
        /\ \A j \in 1..(Len(q) + 1 - 1) : Append(q, x)[j] # n
    BY <1>1, <1>3 DEF Carries
  <2> QED BY <2>1 DEF Ahead
<1> QED BY <1>2, <1>3

\* It comes nearer to the receiver, until it is taken itself.
LEMMA AheadTail ==
    ASSUME NEW S, NEW q \in Seq(S), q # << >>, NEW m, NEW n
    PROVE  /\ Ahead(q, m, n) => Head(q) = m \/ Head(q) # n
           /\ Ahead(q, m, n) /\ Head(q) # m => Ahead(Tail(q), m, n)
<1>1. Len(q) \in Nat \ {0} /\ Head(q) = q[1] /\ Len(Tail(q)) = Len(q) - 1
      /\ \A i \in 1..(Len(q) - 1) : Tail(q)[i] = q[i + 1]
  OBVIOUS
<1> SUFFICES ASSUME Ahead(q, m, n), Head(q) # m
             PROVE  Head(q) # n /\ Ahead(Tail(q), m, n)
  OBVIOUS
<1>2. PICK i \in 1..Len(q) : q[i] = m /\ \A j \in 1..(i - 1) : q[j] # n
  BY DEF Ahead
<1>3. i # 1 /\ 1 \in 1..(i - 1) BY <1>1, <1>2
<1>4. i - 1 \in 1..(Len(q) - 1) /\ Tail(q)[i - 1] = m BY <1>1, <1>2, <1>3
<1>5. ASSUME NEW j \in 1..(i - 1 - 1) PROVE Tail(q)[j] # n
  <2>1. j + 1 \in 1..(i - 1) /\ j \in 1..(Len(q) - 1) BY <1>2, <1>3
  <2> QED BY <1>1, <1>2, <2>1
<1> QED BY <1>1, <1>2, <1>3, <1>4, <1>5 DEF Ahead

\* A message that is ahead is there.
LEMMA AheadCarries ==
    ASSUME NEW q, NEW m, NEW n, Ahead(q, m, n)
    PROVE  Carries(q, m)
  BY DEF Ahead, Carries

\* A message that is there once stays so, if a second is not added.
LEMMA OnceAppend ==
    ASSUME NEW S, NEW q \in Seq(S), NEW x \in S, NEW m,
           OnlyOnce(q, m), x = m => ~Carries(q, m)
    PROVE  OnlyOnce(Append(q, x), m)
<1>1. Len(Append(q, x)) = Len(q) + 1 /\ Append(q, x)[Len(q) + 1] = x
      /\ Len(q) \in Nat /\ \A i \in 1..Len(q) : Append(q, x)[i] = q[i]
  OBVIOUS
<1> SUFFICES ASSUME NEW i \in 1..Len(Append(q, x)), NEW j \in 1..Len(Append(q, x)),
                    Append(q, x)[i] = m, Append(q, x)[j] = m
             PROVE  i = j
  BY DEF OnlyOnce
<1>2. CASE x = m
  <2>1. i \notin 1..Len(q) /\ j \notin 1..Len(q) BY <1>1, <1>2 DEF Carries
  <2> QED BY <1>1, <2>1
<1>3. CASE x # m
  <2>1. i \in 1..Len(q) /\ j \in 1..Len(q) BY <1>1, <1>3
  <2> QED BY <1>1, <2>1 DEF OnlyOnce
<1> QED BY <1>2, <1>3

\* A message that is there once is gone when it is taken.
LEMMA OnceTail ==
    ASSUME NEW S, NEW q \in Seq(S), q # << >>, NEW m, OnlyOnce(q, m)
    PROVE  OnlyOnce(Tail(q), m) /\ (Head(q) = m => ~Carries(Tail(q), m))
<1>1. Len(q) \in Nat \ {0} /\ Head(q) = q[1] /\ Len(Tail(q)) = Len(q) - 1
      /\ \A i \in 1..(Len(q) - 1) : Tail(q)[i] = q[i + 1]
  OBVIOUS
<1>2. OnlyOnce(Tail(q), m)
  <2> SUFFICES ASSUME NEW i \in 1..(Len(q) - 1), NEW j \in 1..(Len(q) - 1),
                      Tail(q)[i] = m, Tail(q)[j] = m
               PROVE  i = j
    BY <1>1 DEF OnlyOnce
  <2>1. i + 1 \in 1..Len(q) /\ j + 1 \in 1..Len(q) BY <1>1
  <2>2. i + 1 = j + 1 BY <1>1, <2>1 DEF OnlyOnce
  <2> QED BY <2>2
<1>3. ASSUME Head(q) = m, Carries(Tail(q), m) PROVE FALSE
  <2>1. PICK i \in 1..(Len(q) - 1) : Tail(q)[i] = m BY <1>1, <1>3 DEF Carries
  <2>2. i + 1 \in 1..Len(q) /\ 1 \in 1..Len(q) /\ q[i + 1] = m /\ q[1] = m
    BY <1>1, <1>3, <2>1
  <2>3. i + 1 = 1 BY <2>2 DEF OnlyOnce
  <2> QED BY <1>1, <2>1, <2>3
<1> QED BY <1>2, <1>3

-----------------------------------------------------------------------------
(* The same for the two directions of the stream and the messages that the  *)
(* invariant is about.                                                      *)

\* The controlled side sends.
LEMMA SendToClient ==
    ASSUME to_client \in Seq(ToClient), NEW x \in ToClient,
           to_client' = Append(to_client, x),
           OnlyOnce(to_client, "test_delay"),
           x = "test_delay" => ~Carries(to_client, "test_delay")
    PROVE  /\ to_client' \in Seq(ToClient)
           /\ OnlyOnce(to_client', "test_delay")
           /\ \A m : Carries(to_client', m) <=> Carries(to_client, m) \/ x = m
           /\ Ahead(to_client, "test_delay", "login_ok")
                => Ahead(to_client', "test_delay", "login_ok")
           /\ ~Carries(to_client, "login_ok") /\ x = "test_delay"
                => Ahead(to_client', "test_delay", "login_ok")
<1>1. to_client' \in Seq(ToClient) OBVIOUS
<1>2. OnlyOnce(to_client', "test_delay") BY OnceAppend
<1>3. \A m : Carries(to_client', m) <=> Carries(to_client, m) \/ x = m BY CarriesAppend
<1>4. /\ Ahead(to_client, "test_delay", "login_ok")
           => Ahead(to_client', "test_delay", "login_ok")
      /\ ~Carries(to_client, "login_ok") /\ x = "test_delay"
           => Ahead(to_client', "test_delay", "login_ok")
  BY AheadAppend
<1> QED BY <1>1, <1>2, <1>3, <1>4

\* The controlling side sends.
LEMMA SendToServer ==
    ASSUME to_server \in Seq(ToServer), NEW x \in ToServer,
           to_server' = Append(to_server, x),
           OnlyOnce(to_server, "test_delay"),
           x = "test_delay" => ~Carries(to_server, "test_delay")
    PROVE  /\ to_server' \in Seq(ToServer)
           /\ OnlyOnce(to_server', "test_delay")
           /\ \A m : Carries(to_server', m) <=> Carries(to_server, m) \/ x = m
           /\ Ahead(to_server, "test_delay", "raw")
                => Ahead(to_server', "test_delay", "raw")
           /\ ~Carries(to_server, "raw") /\ x = "test_delay"
                => Ahead(to_server', "test_delay", "raw")
<1>1. to_server' \in Seq(ToServer) OBVIOUS
<1>2. OnlyOnce(to_server', "test_delay") BY OnceAppend
<1>3. \A m : Carries(to_server', m) <=> Carries(to_server, m) \/ x = m BY CarriesAppend
<1>4. /\ Ahead(to_server, "test_delay", "raw")
           => Ahead(to_server', "test_delay", "raw")
      /\ ~Carries(to_server, "raw") /\ x = "test_delay"
           => Ahead(to_server', "test_delay", "raw")
  BY AheadAppend
<1> QED BY <1>1, <1>2, <1>3, <1>4

\* The controlling side receives.
LEMMA TakeFromClientEnd ==
    ASSUME to_client \in Seq(ToClient), to_client # << >>,
           to_client' = Tail(to_client), OnlyOnce(to_client, "test_delay")
    PROVE  /\ to_client' \in Seq(ToClient) /\ Head(to_client) \in ToClient
           /\ OnlyOnce(to_client', "test_delay")
           /\ Head(to_client) = "test_delay" => ~Carries(to_client', "test_delay")
           /\ \A m : Carries(to_client, m) <=>
                        Head(to_client) = m \/ Carries(to_client', m)
           /\ Ahead(to_client, "test_delay", "login_ok") =>
                \/ Head(to_client) = "test_delay"
                \/ /\ Head(to_client) # "login_ok"
                   /\ Ahead(to_client', "test_delay", "login_ok")
<1>1. to_client' \in Seq(ToClient) /\ Head(to_client) \in ToClient OBVIOUS
<1>2. /\ OnlyOnce(to_client', "test_delay")
      /\ Head(to_client) = "test_delay" => ~Carries(to_client', "test_delay")
  BY OnceTail
<1>3. \A m : Carries(to_client, m) <=> Head(to_client) = m \/ Carries(to_client', m)
  BY CarriesTail
<1>4. Ahead(to_client, "test_delay", "login_ok") =>
        \/ Head(to_client) = "test_delay"
        \/ /\ Head(to_client) # "login_ok"
           /\ Ahead(to_client', "test_delay", "login_ok")
  BY AheadTail
<1> QED BY <1>1, <1>2, <1>3, <1>4

\* The controlled side receives.
LEMMA TakeFromServerEnd ==
    ASSUME to_server \in Seq(ToServer), to_server # << >>,
           to_server' = Tail(to_server), OnlyOnce(to_server, "test_delay")
    PROVE  /\ to_server' \in Seq(ToServer) /\ Head(to_server) \in ToServer
           /\ OnlyOnce(to_server', "test_delay")
           /\ Head(to_server) = "test_delay" => ~Carries(to_server', "test_delay")
           /\ \A m : Carries(to_server, m) <=>
                        Head(to_server) = m \/ Carries(to_server', m)
           /\ Ahead(to_server, "test_delay", "raw") =>
                \/ Head(to_server) = "test_delay"
                \/ /\ Head(to_server) # "raw"
                   /\ Ahead(to_server', "test_delay", "raw")
<1>1. to_server' \in Seq(ToServer) /\ Head(to_server) \in ToServer OBVIOUS
<1>2. /\ OnlyOnce(to_server', "test_delay")
      /\ Head(to_server) = "test_delay" => ~Carries(to_server', "test_delay")
  BY OnceTail
<1>3. \A m : Carries(to_server, m) <=> Head(to_server) = m \/ Carries(to_server', m)
  BY CarriesTail
<1>4. Ahead(to_server, "test_delay", "raw") =>
        \/ Head(to_server) = "test_delay"
        \/ /\ Head(to_server) # "raw"
           /\ Ahead(to_server', "test_delay", "raw")
  BY AheadTail
<1> QED BY <1>1, <1>2, <1>3, <1>4

\* A message that is ahead in one of the two directions is on its way.
LEMMA AheadIsThere ==
    /\ Ahead(to_client, "test_delay", "login_ok") => Carries(to_client, "test_delay")
    /\ Ahead(to_server, "test_delay", "raw") => Carries(to_server, "test_delay")
  BY AheadCarries

-----------------------------------------------------------------------------
(* PortForward: the inductive invariant. *)

\* What is left of StreamInv when NoRawParsed, which follows, is left out.
Core == TypeOK /\ LoginInv /\ ReplyAhead /\ OneTestDelay /\ NoneLeft

\* Raw bytes reach the loop of Connection::start only behind the reply it waits
\* for.
LEMMA RawComesLater == Core => NoRawParsed
<1> SUFFICES ASSUME Core, to_server # << >>, Head(to_server) = "raw",
                    server = "select"
             PROVE  FALSE
  BY DEF NoRawParsed
<1>1. to_server \in Seq(ToServer) BY DEF Core, TypeOK
<1>2. Carries(to_server, "raw") BY <1>1, CarriesTail
<1>3. authorized /\ last_test_delay BY <1>2 DEF Core, LoginInv
<1>4. Ahead(to_server, "test_delay", "raw") BY <1>2, <1>3 DEF Core, ReplyAhead
<1>5. Head(to_server) = "test_delay" \/ Head(to_server) # "raw"
  BY <1>1, <1>4, AheadTail
<1> QED BY <1>5

\* Connection::start has sent the Hash and nothing else.
LEMMA InitCore == Init => Core
<1> SUFFICES ASSUME Init PROVE Core OBVIOUS
<1>1. to_client = <<"hash">> /\ to_server = << >> BY DEF Init
<1>2. /\ \A m : Carries(to_client, m) <=> m = "hash"
      /\ \A m : ~Carries(to_server, m)
      /\ OnlyOnce(to_client, "test_delay") /\ OnlyOnce(to_server, "test_delay")
  BY <1>1 DEF Carries, OnlyOnce
<1>3. to_client \in Seq(ToClient) /\ to_server \in Seq(ToServer)
  BY <1>1 DEF ToClient
<1>4. TypeOK BY <1>3 DEF Init, TypeOK
<1> QED BY <1>2, <1>4
        DEF Init, Core, LoginInv, ReplyAhead, OneTestDelay, NoneLeft

\* A LoginRequest: a right password leaves the loop or waits for the reply.
LEMMA LoginRequestCore ==
    ASSUME Core, NEW p \in {"login_right", "login_wrong", "login_empty"},
           LoginRequest(p)
    PROVE  Core'
<1> USE DEF clientVars, ToClient, ToServer
<1>1. TypeOK BY DEF Core
<1>2. /\ to_server' \in Seq(ToServer) /\ OnlyOnce(to_server', "test_delay")
      /\ \A m : Carries(to_server, m) <=> p = m \/ Carries(to_server', m)
      /\ Ahead(to_server, "test_delay", "raw")
           => Ahead(to_server', "test_delay", "raw")
  BY <1>1, TakeFromServerEnd DEF Core, OneTestDelay, TypeOK, LoginRequest
<1>3. CASE ~authorized /\ p = "login_right"
  <2>1. PICK x \in {"login_ok", "login_error"} :
           to_client' = Append(to_client, x)
    BY <1>3 DEF LoginRequest
  <2>2. /\ to_client' \in Seq(ToClient) /\ OnlyOnce(to_client', "test_delay")
        /\ \A m : Carries(to_client', m) <=> Carries(to_client, m) \/ x = m
        /\ Ahead(to_client, "test_delay", "login_ok")
             => Ahead(to_client', "test_delay", "login_ok")
    BY <1>1, <2>1, SendToClient DEF Core, OneTestDelay, TypeOK
  <2>3. TypeOK'
    BY <1>1, <1>2, <1>3, <2>2 DEF TypeOK, LoginRequest, AfterMessage
  <2> QED BY <1>1, <1>2, <1>3, <2>1, <2>2, <2>3, AheadIsThere
          DEF LoginRequest, AfterMessage, Core, LoginInv, ReplyAhead,
              OneTestDelay, NoneLeft, TypeOK
<1>4. CASE ~authorized /\ p = "login_wrong"
  <2>1. to_client' = Append(to_client, "login_retry") BY <1>4 DEF LoginRequest
  <2>2. /\ to_client' \in Seq(ToClient) /\ OnlyOnce(to_client', "test_delay")
        /\ \A m : Carries(to_client', m) <=> Carries(to_client, m) \/ "login_retry" = m
        /\ Ahead(to_client, "test_delay", "login_ok")
             => Ahead(to_client', "test_delay", "login_ok")
    BY <1>1, <2>1, SendToClient DEF Core, OneTestDelay, TypeOK
  <2>3. TypeOK' BY <1>1, <1>2, <1>4, <2>2 DEF TypeOK, LoginRequest
  <2>4. /\ socket' /\ ~authorized' /\ server = "select" /\ server' = server
        /\ UNCHANGED <<last_test_delay, clicked, target, clientVars>>
    BY <1>1, <1>4 DEF LoginRequest, AfterMessage, TypeOK
  <2> QED BY <1>1, <1>2, <1>4, <2>2, <2>3, <2>4
          DEF Core, LoginInv, ReplyAhead, OneTestDelay, NoneLeft
<1>5. CASE ~authorized /\ p = "login_empty"
  <2>1. /\ socket' /\ ~authorized' /\ server = "select" /\ server' = server
        /\ UNCHANGED <<last_test_delay, clicked, target, clientVars, to_client>>
    BY <1>1, <1>5 DEF LoginRequest, AfterMessage, TypeOK
  <2>2. TypeOK' BY <1>1, <1>2, <1>5, <2>1 DEF TypeOK, LoginRequest
  <2> QED BY <1>1, <1>2, <1>5, <2>1, <2>2
          DEF Core, LoginInv, ReplyAhead, OneTestDelay, NoneLeft
<1>6. CASE authorized
  BY <1>1, <1>2, <1>6
  DEF LoginRequest, AfterMessage, Core, LoginInv, ReplyAhead, OneTestDelay,
      NoneLeft, TypeOK
<1> QED BY <1>3, <1>4, <1>5, <1>6

\* A refused LoginRequest leaves the loop.
LEMMA LoginRefusedCore ==
    ASSUME Core, LoginRefused
    PROVE  Core'
<1> USE DEF clientVars, ToClient, ToServer
<1>1. TypeOK BY DEF Core
<1>2. /\ to_server' \in Seq(ToServer) /\ OnlyOnce(to_server', "test_delay")
      /\ \A m : Carries(to_server, m) <=> Head(to_server) = m \/ Carries(to_server', m)
  BY <1>1, TakeFromServerEnd DEF Core, OneTestDelay, TypeOK, LoginRefused
<1>3. /\ to_client' \in Seq(ToClient) /\ OnlyOnce(to_client', "test_delay")
      /\ \A m : Carries(to_client', m) <=> Carries(to_client, m) \/ "login_error" = m
  BY <1>1, SendToClient DEF Core, OneTestDelay, TypeOK, LoginRefused
<1>4. TypeOK' BY <1>1, <1>2, <1>3 DEF TypeOK, LoginRefused
<1> QED BY <1>1, <1>2, <1>3, <1>4
        DEF LoginRefused, Core, LoginInv, ReplyAhead, OneTestDelay, NoneLeft

\* The reply the loop waited for: now it is left, if the peer is authorized.
LEMMA TestDelayReplyCore ==
    ASSUME Core, TestDelayReply
    PROVE  Core'
<1> USE DEF clientVars
<1>1. TypeOK BY DEF Core
<1>2. /\ to_server' \in Seq(ToServer) /\ OnlyOnce(to_server', "test_delay")
      /\ ~Carries(to_server', "test_delay")
      /\ \A m : Carries(to_server, m) <=> "test_delay" = m \/ Carries(to_server', m)
  BY <1>1, TakeFromServerEnd DEF Core, OneTestDelay, TypeOK, TestDelayReply
<1>3. TypeOK' BY <1>1, <1>2 DEF TypeOK, TestDelayReply, AfterMessage
<1>4. LoginInv'
  BY <1>1, <1>2
  DEF TestDelayReply, AfterMessage, Core, TypeOK, LoginInv
<1>5. ReplyAhead' BY DEF ReplyAhead, TestDelayReply
<1>6. OneTestDelay' BY <1>2 DEF TestDelayReply, Core, OneTestDelay
<1>7. NoneLeft' BY <1>2 DEF TestDelayReply, Core, OneTestDelay, NoneLeft
<1> QED BY <1>3, <1>4, <1>5, <1>6, <1>7 DEF Core

\* A click in the connection manager leaves the loop: it was asked after the
\* target had been reached.
LEMMA AuthorizeCore ==
    ASSUME Core, Authorize
    PROVE  Core'
<1> USE DEF clientVars, ToClient
<1>1. TypeOK BY DEF Core
<1>2. server' = "forward" /\ authorized' /\ clicked'
  BY DEF Authorize, Core, LoginInv
<1>3. CASE authorized
  <2>1. UNCHANGED to_client BY <1>3 DEF Authorize
  <2> QED BY <1>1, <1>2, <2>1
          DEF Authorize, Core, LoginInv, ReplyAhead, OneTestDelay, NoneLeft, TypeOK
<1>4. CASE ~authorized
  <2>1. PICK x \in {"login_ok", "login_error"} :
           to_client' = Append(to_client, x)
    BY <1>4 DEF Authorize
  <2>2. /\ to_client' \in Seq(ToClient) /\ OnlyOnce(to_client', "test_delay")
        /\ \A m : Carries(to_client', m) <=> Carries(to_client, m) \/ x = m
        /\ Ahead(to_client, "test_delay", "login_ok")
             => Ahead(to_client', "test_delay", "login_ok")
    BY <1>1, <2>1, SendToClient DEF Core, OneTestDelay, TypeOK
  <2>3. TypeOK' BY <1>1, <1>2, <2>2 DEF TypeOK, Authorize
  <2>4. /\ client # "forward" /\ app = {} /\ ~Carries(to_client, "login_ok")
        /\ ~Carries(to_server, "raw") /\ target = {}
    BY <1>4 DEF Authorize, Core, LoginInv
  <2>5. UNCHANGED <<target, clientVars, to_server, last_test_delay>>
    BY DEF Authorize
  <2>6. Carries(to_client, "test_delay")
          => Ahead(to_client, "test_delay", "login_ok")
    BY <1>4, <2>4 DEF Carries, Ahead
  <2> QED BY <1>1, <1>2, <2>1, <2>2, <2>3, <2>4, <2>5, <2>6
          DEF Core, LoginInv, ReplyAhead, OneTestDelay, NoneLeft
<1> QED BY <1>3, <1>4

\* TestDelay is sent before the peer is authorized only.
LEMMA TestDelayTimerCore ==
    ASSUME Core, TestDelayTimer
    PROVE  Core'
<1> USE DEF clientVars, ToClient
<1>1. TypeOK BY DEF Core
<1>2. ~authorized /\ client # "forward" /\ ~Carries(to_client, "login_ok")
      /\ ~Carries(to_server, "raw")
  BY DEF TestDelayTimer, Core, LoginInv
<1>3. ~Carries(to_client, "test_delay") /\ ~Carries(to_server, "test_delay")
  BY DEF TestDelayTimer, Core, OneTestDelay
<1>4. /\ to_client' \in Seq(ToClient) /\ OnlyOnce(to_client', "test_delay")
      /\ \A m : Carries(to_client', m) <=> Carries(to_client, m) \/ "test_delay" = m
      /\ Ahead(to_client', "test_delay", "login_ok")
  BY <1>1, <1>2, <1>3, SendToClient DEF Core, OneTestDelay, TypeOK, TestDelayTimer
<1>5. TypeOK' BY <1>1, <1>4 DEF TypeOK, TestDelayTimer
<1> QED BY <1>2, <1>3, <1>4, <1>5
        DEF TestDelayTimer, Core, LoginInv, ReplyAhead, OneTestDelay, NoneLeft

\* Other messages of the controlled side change nothing.
LEMMA CmMessageCore ==
    ASSUME Core, CmMessage
    PROVE  Core'
<1> USE DEF clientVars, serverVars, ToClient
<1>1. TypeOK BY DEF Core
<1>2. /\ to_client' \in Seq(ToClient) /\ OnlyOnce(to_client', "test_delay")
      /\ \A m : Carries(to_client', m) <=> Carries(to_client, m) \/ "permission" = m
      /\ Ahead(to_client, "test_delay", "login_ok")
           => Ahead(to_client', "test_delay", "login_ok")
  BY <1>1, SendToClient DEF Core, OneTestDelay, TypeOK, CmMessage
<1>3. TypeOK' BY <1>1, <1>2 DEF TypeOK, CmMessage
<1> QED BY <1>2, <1>3
        DEF CmMessage, Core, LoginInv, ReplyAhead, OneTestDelay, NoneLeft

\* Bytes of the target follow all that was framed.
LEMMA ForwardFromTargetCore ==
    ASSUME Core, ForwardFromTarget
    PROVE  Core'
<1> USE DEF clientVars, serverVars, ToClient
<1>1. TypeOK BY DEF Core
<1>2. /\ to_client' \in Seq(ToClient) /\ OnlyOnce(to_client', "test_delay")
      /\ \A m : Carries(to_client', m) <=> Carries(to_client, m) \/ "raw" = m
      /\ Ahead(to_client, "test_delay", "login_ok")
           => Ahead(to_client', "test_delay", "login_ok")
  BY <1>1, SendToClient DEF Core, OneTestDelay, TypeOK, ForwardFromTarget
<1>3. TypeOK' BY <1>1, <1>2 DEF TypeOK, ForwardFromTarget
<1> QED BY <1>2, <1>3
        DEF ForwardFromTarget, Core, LoginInv, ReplyAhead, OneTestDelay, NoneLeft

\* After a password login no reply is under way when the loop is left, so none
\* is written to the target.
LEMMA ForwardToTargetCore ==
    ASSUME Core, ForwardToTarget
    PROVE  Core'
<1> USE DEF clientVars
<1>1. TypeOK BY DEF Core
<1>2. /\ to_server' \in Seq(ToServer) /\ Head(to_server) \in ToServer
      /\ OnlyOnce(to_server', "test_delay")
      /\ \A m : Carries(to_server, m) <=> Head(to_server) = m \/ Carries(to_server', m)
  BY <1>1, TakeFromServerEnd DEF Core, OneTestDelay, TypeOK, ForwardToTarget
<1>3. TypeOK' BY <1>1, <1>2 DEF TypeOK, ForwardToTarget
<1>4. authorized /\ ~clicked => Head(to_server) # "test_delay"
  BY <1>2 DEF ForwardToTarget, Core, OneTestDelay, NoneLeft
<1> QED BY <1>2, <1>3, <1>4
        DEF ForwardToTarget, Core, LoginInv, ReplyAhead, OneTestDelay, NoneLeft

\* The controlling side logs in.
LEMMA LoginCore ==
    ASSUME Core, Login
    PROVE  Core'
<1> USE DEF serverVars, ToServer
<1>1. TypeOK BY DEF Core
<1>2. PICK x \in {"login_right", "login_wrong", "login_empty"} :
         to_server' = Append(to_server, x)
  BY DEF Login
<1>3. /\ to_server' \in Seq(ToServer) /\ OnlyOnce(to_server', "test_delay")
      /\ \A m : Carries(to_server', m) <=> Carries(to_server, m) \/ x = m
      /\ Ahead(to_server, "test_delay", "raw")
           => Ahead(to_server', "test_delay", "raw")
  BY <1>1, <1>2, SendToServer DEF Core, OneTestDelay, TypeOK
<1>4. TypeOK' BY <1>1, <1>3 DEF TypeOK, Login
<1> QED BY <1>2, <1>3, <1>4
        DEF Login, Core, LoginInv, ReplyAhead, OneTestDelay, NoneLeft

\* connect_and_login answers a TestDelay before it sees what follows it.
LEMMA ClientMessageCore ==
    ASSUME Core, ClientMessage
    PROVE  Core'
<1> USE DEF serverVars
<1> DEFINE h == Head(to_client)
<1>1. TypeOK /\ client = "login" /\ UNCHANGED <<serverVars, app>>
  BY DEF Core, ClientMessage
<1>2. /\ to_client' \in Seq(ToClient) /\ h \in ToClient
      /\ OnlyOnce(to_client', "test_delay")
      /\ h = "test_delay" => ~Carries(to_client', "test_delay")
      /\ \A m : Carries(to_client, m) <=> h = m \/ Carries(to_client', m)
      /\ Ahead(to_client, "test_delay", "login_ok") =>
           \/ h = "test_delay"
           \/ h # "login_ok" /\ Ahead(to_client', "test_delay", "login_ok")
  BY <1>1, TakeFromClientEnd DEF Core, OneTestDelay, TypeOK, ClientMessage
<1> HIDE DEF h
<1>3. CASE h \in {"hash", "login_retry"}
  <2>1. hashed' = TRUE /\ UNCHANGED <<client, buffer, to_server>>
    BY <1>3 DEF ClientMessage, h
  <2>2. TypeOK' BY <1>1, <1>2, <2>1 DEF TypeOK
  <2> QED BY <1>1, <1>2, <1>3, <2>1, <2>2
          DEF Core, LoginInv, ReplyAhead, OneTestDelay, NoneLeft
<1>4. CASE h = "test_delay"
  <2>1. /\ to_server' = Append(to_server, "test_delay")
        /\ UNCHANGED <<client, buffer, hashed>>
    BY <1>4 DEF ClientMessage, h
  <2>2. ~Carries(to_server, "test_delay") /\ last_test_delay
    BY <1>2, <1>4 DEF Core, OneTestDelay
  <2>3. /\ to_server' \in Seq(ToServer) /\ OnlyOnce(to_server', "test_delay")
        /\ \A m : Carries(to_server', m) <=> Carries(to_server, m) \/ "test_delay" = m
        /\ ~Carries(to_server, "raw") => Ahead(to_server', "test_delay", "raw")
    BY <1>1, <2>1, <2>2, SendToServer DEF Core, OneTestDelay, TypeOK, ToServer
  <2>4. server = "select" => ~Carries(to_server, "raw")
    BY <2>2, AheadIsThere DEF Core, ReplyAhead
  <2>5. TypeOK' BY <1>1, <1>2, <2>1, <2>3 DEF TypeOK
  <2> QED BY <1>1, <1>2, <1>4, <2>1, <2>2, <2>3, <2>4, <2>5
          DEF Core, LoginInv, ReplyAhead, OneTestDelay, NoneLeft
<1>5. CASE h = "login_error"
  <2>1. client' = "closed" /\ UNCHANGED <<hashed, buffer, to_server>>
    BY <1>5 DEF ClientMessage, h
  <2>2. TypeOK' BY <1>1, <1>2, <2>1 DEF TypeOK
  <2> QED BY <1>1, <1>2, <1>5, <2>1, <2>2
          DEF Core, LoginInv, ReplyAhead, OneTestDelay, NoneLeft
<1>6. CASE h = "login_ok"
  <2>1. /\ client' = "forward" /\ buffer' = FALSE /\ UNCHANGED hashed
        /\ to_server' = IF buffer THEN Append(to_server, "raw") ELSE to_server
    BY <1>6 DEF ClientMessage, h
  <2>2. /\ authorized /\ ~Carries(to_client', "test_delay")
        /\ ~Ahead(to_client, "test_delay", "login_ok")
    BY <1>2, <1>6, AheadIsThere DEF Core, LoginInv, NoneLeft
  <2>3. /\ to_server' \in Seq(ToServer) /\ OnlyOnce(to_server', "test_delay")
        /\ Carries(to_server', "test_delay") <=> Carries(to_server, "test_delay")
        /\ Ahead(to_server, "test_delay", "raw")
             => Ahead(to_server', "test_delay", "raw")
    <3>1. CASE buffer
      BY <1>1, <2>1, <3>1, SendToServer
      DEF Core, OneTestDelay, TypeOK, ToServer
    <3>2. CASE ~buffer
      BY <1>1, <2>1, <3>2 DEF Core, OneTestDelay, TypeOK
    <3> QED BY <3>1, <3>2
  <2>4. TypeOK' BY <1>1, <1>2, <2>1, <2>3 DEF TypeOK
  <2> QED BY <1>1, <1>2, <1>6, <2>1, <2>2, <2>3, <2>4
          DEF Core, LoginInv, ReplyAhead, OneTestDelay, NoneLeft
<1>7. CASE h \in {"permission", "raw"}
  <2>1. UNCHANGED <<client, hashed, buffer, to_server>>
    BY <1>7 DEF ClientMessage, h
  <2>2. TypeOK' BY <1>1, <1>2, <2>1 DEF TypeOK
  <2> QED BY <1>1, <1>2, <1>7, <2>1, <2>2
          DEF Core, LoginInv, ReplyAhead, OneTestDelay, NoneLeft
<1> QED BY <1>2, <1>3, <1>4, <1>5, <1>6, <1>7 DEF ToClient

\* The local application's bytes follow the reply.
LEMMA AppSendsCore ==
    ASSUME Core, AppSends
    PROVE  Core'
<1> USE DEF serverVars
<1>1. TypeOK BY DEF Core
<1>2. CASE client = "login"
  <2>1. buffer' = TRUE /\ UNCHANGED <<to_server, client, hashed, app, to_client>>
    BY <1>2 DEF AppSends
  <2>2. TypeOK' BY <1>1, <2>1 DEF TypeOK, AppSends
  <2> QED BY <2>1, <2>2
          DEF AppSends, Core, LoginInv, ReplyAhead, OneTestDelay, NoneLeft
<1>3. CASE client = "forward"
  <2>1. to_server' = Append(to_server, "raw") /\ UNCHANGED buffer
    BY <1>3 DEF AppSends
  <2>2. /\ to_server' \in Seq(ToServer) /\ OnlyOnce(to_server', "test_delay")
        /\ Carries(to_server', "test_delay") <=> Carries(to_server, "test_delay")
        /\ Ahead(to_server, "test_delay", "raw")
             => Ahead(to_server', "test_delay", "raw")
    BY <1>1, <2>1, SendToServer DEF Core, OneTestDelay, TypeOK, ToServer
  <2>3. TypeOK' BY <1>1, <2>1, <2>2 DEF TypeOK, AppSends
  <2> QED BY <1>3, <2>2, <2>3
          DEF AppSends, Core, LoginInv, ReplyAhead, OneTestDelay, NoneLeft
<1> QED BY <1>2, <1>3 DEF AppSends

\* No TestDelay reaches run_forward.
LEMMA ForwardToAppCore ==
    ASSUME Core, ForwardToApp
    PROVE  Core'
<1> USE DEF serverVars
<1>1. TypeOK BY DEF Core
<1>2. /\ to_client' \in Seq(ToClient) /\ Head(to_client) \in ToClient
      /\ OnlyOnce(to_client', "test_delay")
      /\ \A m : Carries(to_client, m) <=> Head(to_client) = m \/ Carries(to_client', m)
  BY <1>1, TakeFromClientEnd DEF Core, OneTestDelay, TypeOK, ForwardToApp
<1>3. TypeOK' BY <1>1, <1>2 DEF TypeOK, ForwardToApp
<1>4. ~Carries(to_client, "test_delay") BY DEF ForwardToApp, Core, NoneLeft
<1> QED BY <1>2, <1>3, <1>4
        DEF ForwardToApp, Core, LoginInv, ReplyAhead, OneTestDelay, NoneLeft

\* Every step keeps the invariant.
LEMMA NextCore == Core /\ [Next]_vars => Core'
<1> SUFFICES ASSUME Core, [Next]_vars PROVE Core'
  OBVIOUS
<1>1. ASSUME NEW p \in {"login_right", "login_wrong", "login_empty"},
             LoginRequest(p)
      PROVE  Core'
  BY <1>1, LoginRequestCore
<1>2. CASE LoginRefused BY <1>2, LoginRefusedCore
<1>3. CASE TestDelayReply BY <1>3, TestDelayReplyCore
<1>4. CASE Authorize BY <1>4, AuthorizeCore
<1>5. CASE TestDelayTimer BY <1>5, TestDelayTimerCore
<1>6. CASE CmMessage BY <1>6, CmMessageCore
<1>7. CASE ServerClose
  BY <1>7 DEF ServerClose, Core, TypeOK, LoginInv, ReplyAhead, OneTestDelay,
              NoneLeft, clientVars
<1>8. CASE ForwardToTarget BY <1>8, ForwardToTargetCore
<1>9. CASE ForwardFromTarget BY <1>9, ForwardFromTargetCore
<1>10. CASE Login BY <1>10, LoginCore
<1>11. CASE ClientMessage BY <1>11, ClientMessageCore
<1>12. CASE AppSends BY <1>12, AppSendsCore
<1>13. CASE ForwardToApp BY <1>13, ForwardToAppCore
<1>14. CASE ClientClose
  BY <1>14 DEF ClientClose, Core, TypeOK, LoginInv, ReplyAhead, OneTestDelay,
               NoneLeft, serverVars
<1>15. CASE UNCHANGED vars
  BY <1>15 DEF vars, Core, TypeOK, LoginInv, ReplyAhead, OneTestDelay, NoneLeft
<1> QED BY <1>1, <1>2, <1>3, <1>4, <1>5, <1>6, <1>7, <1>8, <1>9, <1>10,
           <1>11, <1>12, <1>13, <1>14, <1>15
        DEF Next, ServerStep, ClientStep

\* The two ends agree on what is framed and what is raw, whatever the stream
\* holds: Connection::start never reads forwarded bytes as a message.
THEOREM StreamsAgree == Spec => []StreamInv
<1>1. Init => Core BY InitCore
<1>2. Core /\ [Next]_vars => Core' BY NextCore
<1>3. Core => StreamInv BY RawComesLater DEF Core, StreamInv
<1> QED BY <1>1, <1>2, <1>3, PTL DEF Spec

\* "Avoid TestDelay reply injection into rdp data stream": proved for every
\* connection whose loop is not left by a click in the connection manager.
THEOREM NoInjection == Spec => []PasswordLoginIsClean
<1>1. StreamInv => PasswordLoginIsClean
  BY DEF StreamInv, NoneLeft, PasswordLoginIsClean, NoTestDelayForwarded
<1> QED BY <1>1, StreamsAgree, PTL

=============================================================================
