--------------------------- MODULE TerminalProofs ---------------------------
(***************************************************************************)
(* Proofs about Terminal, for any number of connections: no shell, thread  *)
(* or service is forgotten, and the output of a terminal is sent before    *)
(* its end is reported.                                                    *)
(***************************************************************************)
EXTENDS Terminal, TLAPS

\* The steps of a session's threads and shell, and of the reaper.
SessionStep(k) ==
    \/ ReapZombie(k) \/ WriterWrites(k) \/ WriterEnds(k) \/ ReaderReads(k)
    \/ ReaderEnds(k) \/ ShellWrites(k) \/ ShellEnds(k)

\* The steps of a call keep the types.
LEMMA CallType ==
    ASSUME Inv, NEW a \in Actors, CallStep(a)
    PROVE  TypeOK'
<1> USE TerminalAssumption DEF Inv, TypeOK, Goto, local, locks, services,
        channels, shell, flags, PCs, Threads, Home, Kill, HoldInv, Stopping
<1> None \notin Conns BY DEF Actors
<1>1. CASE Drop(a)
  <2>1. CASE DropStops(a) BY <2>1 DEF DropStops, Released
  <2>2. CASE DropFinished(a) BY <2>2 DEF DropFinished
  <2>3. CASE DropService(a) BY <2>3 DEF DropService, SvcReleased
  <2>4. CASE DropEnds(a) BY <2>4 DEF DropEnds
  <2> QED BY <1>1, <2>1, <2>2, <2>3, <2>4 DEF Drop
<1>2. CASE Stop(a) BY <1>2 DEF Stop
<1>3. CASE StopSend(a) BY <1>3 DEF StopSend
<1>4. CASE JoinReader(a) BY <1>4 DEF JoinReader
<1>5. CASE JoinWriter(a) BY <1>5 DEF JoinWriter
<1>6. CASE Remove(a) BY <1>6 DEF Remove
<1>7. CASE RemoveSvc(a) BY <1>7 DEF RemoveSvc
<1>8. CASE RemoveSess(a) BY <1>8 DEF RemoveSess
<1> QED BY <1>1, <1>2, <1>3, <1>4, <1>5, <1>6, <1>7, <1>8 DEF CallStep

\* So do the steps of a connection,
LEMMA ConnType ==
    ASSUME Inv, NEW c \in Conns, ConnCallStep(c) \/ Begin(c) \/ Tick(c)
    PROVE  TypeOK'
<1> USE TerminalAssumption DEF Inv, TypeOK, Goto, local, locks, services,
        channels, shell, flags, PCs, Threads, Home, Kill, HoldInv, Stopping
<1> c \in Actors /\ None \notin Conns BY DEF Actors
<1>1. CASE LoginFull(c) BY <1>1 DEF LoginFull
<1>2. CASE Login(c) BY <1>2 DEF Login
<1>3. CASE OpenLock(c) BY <1>3 DEF OpenLock
<1>4. CASE Reopen(c) BY <1>4 DEF Reopen
<1>5. CASE Open(c) BY <1>5 DEF Open
<1>6. CASE OpenFails(c) BY <1>6 DEF OpenFails
<1>7. CASE Lookup(c) BY <1>7 DEF Lookup
<1>8. CASE Lock(c) BY <1>8 DEF Lock
<1>9. CASE Send(c) BY <1>9 DEF Send
<1>10. CASE Close(c) BY <1>10 DEF Close
<1>11. CASE CloseKill(c) BY <1>11 DEF CloseKill
<1>12. CASE TickBusy(c) BY <1>12 DEF TickBusy
<1>13. CASE TickCheck(c) BY <1>13 DEF TickCheck
<1>14. CASE TickDrain(c) BY <1>14 DEF TickDrain
<1>15. CASE Closed(c) BY <1>15 DEF Closed
<1>16. CASE Reap(c) BY <1>16 DEF Reap
<1>17. CASE LoginLock(c) BY <1>17 DEF LoginLock
<1>18. CASE ActOpen(c) BY <1>18 DEF ActOpen, Act
<1>19. CASE ActData(c) BY <1>19 DEF ActData, Act
<1>20. CASE ActClose(c) BY <1>20 DEF ActClose, Act
<1>21. CASE Disconnect(c) BY <1>21 DEF Disconnect
<1>22. CASE Tick(c) BY <1>22 DEF Tick, Term
<1> QED BY <1>1, <1>2, <1>3, <1>4, <1>5, <1>6, <1>7, <1>8, <1>9, <1>10, <1>11,
           <1>12, <1>13, <1>14, <1>15, <1>16, <1>17, <1>18, <1>19, <1>20,
           <1>21, <1>22 DEF ConnCallStep, Begin

\* and those of a session.
LEMMA SessionType ==
    ASSUME Inv, NEW k \in Conns, SessionStep(k)
    PROVE  TypeOK'
<1> USE TerminalAssumption DEF Inv, TypeOK, Goto, local, locks, services,
        channels, shell, flags, PCs, Threads, Home, Kill, HoldInv, Stopping
<1> k \in Actors /\ None \notin Conns BY DEF Actors
<1>1. CASE ReapZombie(k) BY <1>1 DEF ReapZombie
<1>2. CASE WriterWrites(k) BY <1>2 DEF WriterWrites
<1>3. CASE WriterEnds(k) BY <1>3 DEF WriterEnds
<1>4. CASE ReaderReads(k) BY <1>4 DEF ReaderReads
<1>5. CASE ReaderEnds(k) BY <1>5 DEF ReaderEnds
<1>6. CASE ShellWrites(k) BY <1>6 DEF ShellWrites
<1>7. CASE ShellEnds(k) BY <1>7 DEF ShellEnds
<1> QED BY <1>1, <1>2, <1>3, <1>4, <1>5, <1>6, <1>7 DEF SessionStep

\* Where an actor is says what it holds.
LEMMA CallHolds ==
    ASSUME Inv, NEW a \in Actors, CallStep(a)
    PROVE  HoldInv'
<1> USE TerminalAssumption DEF Inv, TypeOK, Goto, local, locks, services,
        channels, shell, flags, HoldInv, FinInv, Stopping, Home, Kill
<1> None \notin Conns BY DEF Actors
<1>1. CASE Drop(a)
  <2>1. CASE DropStops(a) BY <2>1 DEF DropStops, Released
  <2>2. CASE DropFinished(a) BY <2>2 DEF DropFinished
  <2>3. CASE DropService(a) BY <2>3 DEF DropService, SvcReleased
  <2>4. CASE DropEnds(a) BY <2>4 DEF DropEnds
  <2> QED BY <1>1, <2>1, <2>2, <2>3, <2>4 DEF Drop
<1>2. CASE Stop(a) BY <1>2 DEF Stop
<1>3. CASE StopSend(a) BY <1>3 DEF StopSend
<1>4. CASE JoinReader(a) BY <1>4 DEF JoinReader
<1>5. CASE JoinWriter(a) BY <1>5 DEF JoinWriter
<1>6. CASE Remove(a) BY <1>6 DEF Remove
<1>7. CASE RemoveSvc(a) BY <1>7 DEF RemoveSvc
<1>8. CASE RemoveSess(a) BY <1>8 DEF RemoveSess
<1> QED BY <1>1, <1>2, <1>3, <1>4, <1>5, <1>6, <1>7, <1>8 DEF CallStep

\* The same for the steps of a connection.
LEMMA ConnHolds ==
    ASSUME Inv, NEW c \in Conns, ConnCallStep(c) \/ Begin(c) \/ Tick(c)
    PROVE  HoldInv'
<1> USE TerminalAssumption DEF Inv, TypeOK, Goto, local, locks, services,
        channels, shell, flags, HoldInv, FinInv, Stopping, Home, Kill
<1> c \in Actors /\ None \notin Conns BY DEF Actors
<1>1. CASE LoginFull(c) BY <1>1 DEF LoginFull
<1>2. CASE Login(c) BY <1>2 DEF Login
<1>3. CASE OpenLock(c) BY <1>3 DEF OpenLock
<1>4. CASE Reopen(c) BY <1>4 DEF Reopen
<1>5. CASE Open(c) BY <1>5 DEF Open
<1>6. CASE OpenFails(c) BY <1>6 DEF OpenFails
<1>7. CASE Lookup(c) BY <1>7 DEF Lookup
<1>8. CASE Lock(c) BY <1>8 DEF Lock
<1>9. CASE Send(c) BY <1>9 DEF Send
<1>10. CASE Close(c) BY <1>10 DEF Close
<1>11. CASE CloseKill(c) BY <1>11 DEF CloseKill
<1>12. CASE TickBusy(c) BY <1>12 DEF TickBusy
<1>13. CASE TickCheck(c) BY <1>13 DEF TickCheck
<1>14. CASE TickDrain(c) BY <1>14 DEF TickDrain
<1>15. CASE Closed(c) BY <1>15 DEF Closed
<1>16. CASE Reap(c) BY <1>16 DEF Reap
<1>17. CASE LoginLock(c) BY <1>17 DEF LoginLock
<1>18. CASE ActOpen(c) BY <1>18 DEF ActOpen, Act
<1>19. CASE ActData(c) BY <1>19 DEF ActData, Act
<1>20. CASE ActClose(c) BY <1>20 DEF ActClose, Act
<1>21. CASE Disconnect(c) BY <1>21 DEF Disconnect
<1>22. CASE Tick(c) BY <1>22 DEF Tick, Term
<1> QED BY <1>1, <1>2, <1>3, <1>4, <1>5, <1>6, <1>7, <1>8, <1>9, <1>10, <1>11,
           <1>12, <1>13, <1>14, <1>15, <1>16, <1>17, <1>18, <1>19, <1>20,
           <1>21, <1>22 DEF ConnCallStep, Begin

\* The same for the steps of a session.
LEMMA SessionHolds ==
    ASSUME Inv, NEW k \in Conns, SessionStep(k)
    PROVE  HoldInv'
<1> USE TerminalAssumption DEF Inv, TypeOK, Goto, local, locks, services,
        channels, shell, flags, HoldInv, FinInv, Stopping, Home, Kill
<1> k \in Actors /\ None \notin Conns BY DEF Actors
<1>1. CASE ReapZombie(k) BY <1>1 DEF ReapZombie
<1>2. CASE WriterWrites(k) BY <1>2 DEF WriterWrites
<1>3. CASE WriterEnds(k) BY <1>3 DEF WriterEnds
<1>4. CASE ReaderReads(k) BY <1>4 DEF ReaderReads
<1>5. CASE ReaderEnds(k) BY <1>5 DEF ReaderEnds
<1>6. CASE ShellWrites(k) BY <1>6 DEF ShellWrites
<1>7. CASE ShellEnds(k) BY <1>7 DEF ShellEnds
<1> QED BY <1>1, <1>2, <1>3, <1>4, <1>5, <1>6, <1>7 DEF SessionStep

\* Sessions that are held have been made.
LEMMA CallMade ==
    ASSUME Inv, NEW a \in Actors, CallStep(a)
    PROVE  MadeInv'
<1> USE TerminalAssumption DEF Inv, TypeOK, Goto, local, locks, services,
        channels, shell, flags, MadeInv, HoldInv, Stopping, Kill
<1> None \notin Conns BY DEF Actors
<1>1. CASE Drop(a)
  <2>1. CASE DropStops(a) BY <2>1 DEF DropStops, Released
  <2>2. CASE DropFinished(a) BY <2>2 DEF DropFinished
  <2>3. CASE DropService(a) BY <2>3 DEF DropService, SvcReleased
  <2>4. CASE DropEnds(a) BY <2>4 DEF DropEnds
  <2> QED BY <1>1, <2>1, <2>2, <2>3, <2>4 DEF Drop
<1>2. CASE Stop(a) BY <1>2 DEF Stop
<1>3. CASE StopSend(a) BY <1>3 DEF StopSend
<1>4. CASE JoinReader(a) BY <1>4 DEF JoinReader
<1>5. CASE JoinWriter(a) BY <1>5 DEF JoinWriter
<1>6. CASE Remove(a) BY <1>6 DEF Remove
<1>7. CASE RemoveSvc(a) BY <1>7 DEF RemoveSvc
<1>8. CASE RemoveSess(a) BY <1>8 DEF RemoveSess
<1> QED BY <1>1, <1>2, <1>3, <1>4, <1>5, <1>6, <1>7, <1>8 DEF CallStep

\* The same for the steps of a connection.
LEMMA ConnMade ==
    ASSUME Inv, NEW c \in Conns, ConnCallStep(c) \/ Begin(c) \/ Tick(c)
    PROVE  MadeInv'
<1> USE TerminalAssumption DEF Inv, TypeOK, Goto, local, locks, services,
        channels, shell, flags, MadeInv, HoldInv, Stopping, Kill
<1> c \in Actors /\ None \notin Conns BY DEF Actors
<1>1. CASE LoginFull(c) BY <1>1 DEF LoginFull
<1>2. CASE Login(c) BY <1>2 DEF Login
<1>3. CASE OpenLock(c) BY <1>3 DEF OpenLock
<1>4. CASE Reopen(c) BY <1>4 DEF Reopen
<1>5. CASE Open(c) BY <1>5 DEF Open
<1>6. CASE OpenFails(c) BY <1>6 DEF OpenFails
<1>7. CASE Lookup(c) BY <1>7 DEF Lookup
<1>8. CASE Lock(c) BY <1>8 DEF Lock
<1>9. CASE Send(c) BY <1>9 DEF Send
<1>10. CASE Close(c) BY <1>10 DEF Close
<1>11. CASE CloseKill(c) BY <1>11 DEF CloseKill
<1>12. CASE TickBusy(c) BY <1>12 DEF TickBusy
<1>13. CASE TickCheck(c) BY <1>13 DEF TickCheck
<1>14. CASE TickDrain(c) BY <1>14 DEF TickDrain
<1>15. CASE Closed(c) BY <1>15 DEF Closed
<1>16. CASE Reap(c) BY <1>16 DEF Reap
<1>17. CASE LoginLock(c) BY <1>17 DEF LoginLock
<1>18. CASE ActOpen(c) BY <1>18 DEF ActOpen, Act
<1>19. CASE ActData(c) BY <1>19 DEF ActData, Act
<1>20. CASE ActClose(c) BY <1>20 DEF ActClose, Act
<1>21. CASE Disconnect(c) BY <1>21 DEF Disconnect
<1>22. CASE Tick(c) BY <1>22 DEF Tick, Term
<1> QED BY <1>1, <1>2, <1>3, <1>4, <1>5, <1>6, <1>7, <1>8, <1>9, <1>10, <1>11,
           <1>12, <1>13, <1>14, <1>15, <1>16, <1>17, <1>18, <1>19, <1>20,
           <1>21, <1>22 DEF ConnCallStep, Begin

\* The same for the steps of a session.
LEMMA SessionMade ==
    ASSUME Inv, NEW k \in Conns, SessionStep(k)
    PROVE  MadeInv'
<1> USE TerminalAssumption DEF Inv, TypeOK, Goto, local, locks, services,
        channels, shell, flags, MadeInv, HoldInv, Stopping, Kill
<1> k \in Actors /\ None \notin Conns BY DEF Actors
<1>1. CASE ReapZombie(k) BY <1>1 DEF ReapZombie
<1>2. CASE WriterWrites(k) BY <1>2 DEF WriterWrites
<1>3. CASE WriterEnds(k) BY <1>3 DEF WriterEnds
<1>4. CASE ReaderReads(k) BY <1>4 DEF ReaderReads
<1>5. CASE ReaderEnds(k) BY <1>5 DEF ReaderEnds
<1>6. CASE ShellWrites(k) BY <1>6 DEF ShellWrites
<1>7. CASE ShellEnds(k) BY <1>7 DEF ShellEnds
<1> QED BY <1>1, <1>2, <1>3, <1>4, <1>5, <1>6, <1>7 DEF SessionStep

\* Who has joined the reader joins the writer.
LEMMA CallJoin ==
    ASSUME Inv, NEW a \in Actors, CallStep(a)
    PROVE  JoinInv'
<1> USE TerminalAssumption DEF Inv, TypeOK, Goto, local, locks, services,
        channels, shell, flags, JoinInv, MadeInv, HoldInv, Stopping, Kill
<1> None \notin Conns BY DEF Actors
<1>1. CASE Drop(a)
  <2>1. CASE DropStops(a) BY <2>1 DEF DropStops, Released
  <2>2. CASE DropFinished(a) BY <2>2 DEF DropFinished
  <2>3. CASE DropService(a) BY <2>3 DEF DropService, SvcReleased
  <2>4. CASE DropEnds(a) BY <2>4 DEF DropEnds
  <2> QED BY <1>1, <2>1, <2>2, <2>3, <2>4 DEF Drop
<1>2. CASE Stop(a) BY <1>2 DEF Stop
<1>3. CASE StopSend(a) BY <1>3 DEF StopSend
<1>4. CASE JoinReader(a) BY <1>4 DEF JoinReader
<1>5. CASE JoinWriter(a) BY <1>5 DEF JoinWriter
<1>6. CASE Remove(a) BY <1>6 DEF Remove
<1>7. CASE RemoveSvc(a) BY <1>7 DEF RemoveSvc
<1>8. CASE RemoveSess(a) BY <1>8 DEF RemoveSess
<1> QED BY <1>1, <1>2, <1>3, <1>4, <1>5, <1>6, <1>7, <1>8 DEF CallStep

\* The same for the steps of a connection.
LEMMA ConnJoin ==
    ASSUME Inv, NEW c \in Conns, ConnCallStep(c) \/ Begin(c) \/ Tick(c)
    PROVE  JoinInv'
<1> USE TerminalAssumption DEF Inv, TypeOK, Goto, local, locks, services,
        channels, shell, flags, JoinInv, MadeInv, HoldInv, Stopping, Kill
<1> c \in Actors /\ None \notin Conns BY DEF Actors
<1>1. CASE LoginFull(c) BY <1>1 DEF LoginFull
<1>2. CASE Login(c) BY <1>2 DEF Login
<1>3. CASE OpenLock(c) BY <1>3 DEF OpenLock
<1>4. CASE Reopen(c) BY <1>4 DEF Reopen
<1>5. CASE Open(c) BY <1>5 DEF Open
<1>6. CASE OpenFails(c) BY <1>6 DEF OpenFails
<1>7. CASE Lookup(c) BY <1>7 DEF Lookup
<1>8. CASE Lock(c) BY <1>8 DEF Lock
<1>9. CASE Send(c) BY <1>9 DEF Send
<1>10. CASE Close(c) BY <1>10 DEF Close
<1>11. CASE CloseKill(c) BY <1>11 DEF CloseKill
<1>12. CASE TickBusy(c) BY <1>12 DEF TickBusy
<1>13. CASE TickCheck(c) BY <1>13 DEF TickCheck
<1>14. CASE TickDrain(c) BY <1>14 DEF TickDrain
<1>15. CASE Closed(c) BY <1>15 DEF Closed
<1>16. CASE Reap(c) BY <1>16 DEF Reap
<1>17. CASE LoginLock(c) BY <1>17 DEF LoginLock
<1>18. CASE ActOpen(c) BY <1>18 DEF ActOpen, Act
<1>19. CASE ActData(c) BY <1>19 DEF ActData, Act
<1>20. CASE ActClose(c) BY <1>20 DEF ActClose, Act
<1>21. CASE Disconnect(c) BY <1>21 DEF Disconnect
<1>22. CASE Tick(c) BY <1>22 DEF Tick, Term
<1> QED BY <1>1, <1>2, <1>3, <1>4, <1>5, <1>6, <1>7, <1>8, <1>9, <1>10, <1>11,
           <1>12, <1>13, <1>14, <1>15, <1>16, <1>17, <1>18, <1>19, <1>20,
           <1>21, <1>22 DEF ConnCallStep, Begin

\* The same for the steps of a session.
LEMMA SessionJoin ==
    ASSUME Inv, NEW k \in Conns, SessionStep(k)
    PROVE  JoinInv'
<1> USE TerminalAssumption DEF Inv, TypeOK, Goto, local, locks, services,
        channels, shell, flags, JoinInv, MadeInv, HoldInv, Stopping, Kill
<1> k \in Actors /\ None \notin Conns BY DEF Actors
<1>1. CASE ReapZombie(k) BY <1>1 DEF ReapZombie
<1>2. CASE WriterWrites(k) BY <1>2 DEF WriterWrites
<1>3. CASE WriterEnds(k) BY <1>3 DEF WriterEnds
<1>4. CASE ReaderReads(k) BY <1>4 DEF ReaderReads
<1>5. CASE ReaderEnds(k) BY <1>5 DEF ReaderEnds
<1>6. CASE ShellWrites(k) BY <1>6 DEF ShellWrites
<1>7. CASE ShellEnds(k) BY <1>7 DEF ShellEnds
<1> QED BY <1>1, <1>2, <1>3, <1>4, <1>5, <1>6, <1>7 DEF SessionStep

\* The registry and its lock.
LEMMA CallRegistry ==
    ASSUME Inv, NEW a \in Actors, CallStep(a)
    PROVE  RegistryInv'
<1> USE TerminalAssumption DEF Inv, TypeOK, Goto, local, locks, services,
        channels, shell, flags, RegistryInv, HoldInv, FinInv, Stopping, Home,
        Kill
<1> None \notin Conns BY DEF Actors
<1>1. CASE Drop(a)
  <2>1. CASE DropStops(a) BY <2>1 DEF DropStops, Released
  <2>2. CASE DropFinished(a) BY <2>2 DEF DropFinished
  <2>3. CASE DropService(a) BY <2>3 DEF DropService, SvcReleased
  <2>4. CASE DropEnds(a) BY <2>4 DEF DropEnds
  <2> QED BY <1>1, <2>1, <2>2, <2>3, <2>4 DEF Drop
<1>2. CASE Stop(a) BY <1>2 DEF Stop
<1>3. CASE StopSend(a) BY <1>3 DEF StopSend
<1>4. CASE JoinReader(a) BY <1>4 DEF JoinReader
<1>5. CASE JoinWriter(a) BY <1>5 DEF JoinWriter
<1>6. CASE Remove(a) BY <1>6 DEF Remove
<1>7. CASE RemoveSvc(a) BY <1>7 DEF RemoveSvc
<1>8. CASE RemoveSess(a) BY <1>8 DEF RemoveSess
<1> QED BY <1>1, <1>2, <1>3, <1>4, <1>5, <1>6, <1>7, <1>8 DEF CallStep

\* The same for the steps of a connection.
LEMMA ConnRegistry ==
    ASSUME Inv, NEW c \in Conns, ConnCallStep(c) \/ Begin(c) \/ Tick(c)
    PROVE  RegistryInv'
<1> USE TerminalAssumption DEF Inv, TypeOK, Goto, local, locks, services,
        channels, shell, flags, RegistryInv, HoldInv, FinInv, Stopping, Home,
        Kill
<1> c \in Actors /\ None \notin Conns BY DEF Actors
<1>1. CASE LoginFull(c) BY <1>1 DEF LoginFull
<1>2. CASE Login(c) BY <1>2 DEF Login
<1>3. CASE OpenLock(c) BY <1>3 DEF OpenLock
<1>4. CASE Reopen(c) BY <1>4 DEF Reopen
<1>5. CASE Open(c) BY <1>5 DEF Open
<1>6. CASE OpenFails(c) BY <1>6 DEF OpenFails
<1>7. CASE Lookup(c) BY <1>7 DEF Lookup
<1>8. CASE Lock(c) BY <1>8 DEF Lock
<1>9. CASE Send(c) BY <1>9 DEF Send
<1>10. CASE Close(c) BY <1>10 DEF Close
<1>11. CASE CloseKill(c) BY <1>11 DEF CloseKill
<1>12. CASE TickBusy(c) BY <1>12 DEF TickBusy
<1>13. CASE TickCheck(c) BY <1>13 DEF TickCheck
<1>14. CASE TickDrain(c) BY <1>14 DEF TickDrain
<1>15. CASE Closed(c) BY <1>15 DEF Closed
<1>16. CASE Reap(c) BY <1>16 DEF Reap
<1>17. CASE LoginLock(c) BY <1>17 DEF LoginLock
<1>18. CASE ActOpen(c) BY <1>18 DEF ActOpen, Act
<1>19. CASE ActData(c) BY <1>19 DEF ActData, Act
<1>20. CASE ActClose(c) BY <1>20 DEF ActClose, Act
<1>21. CASE Disconnect(c) BY <1>21 DEF Disconnect
<1>22. CASE Tick(c) BY <1>22 DEF Tick, Term
<1> QED BY <1>1, <1>2, <1>3, <1>4, <1>5, <1>6, <1>7, <1>8, <1>9, <1>10, <1>11,
           <1>12, <1>13, <1>14, <1>15, <1>16, <1>17, <1>18, <1>19, <1>20,
           <1>21, <1>22 DEF ConnCallStep, Begin

\* The same for the steps of a session.
LEMMA SessionRegistry ==
    ASSUME Inv, NEW k \in Conns, SessionStep(k)
    PROVE  RegistryInv'
<1> USE TerminalAssumption DEF Inv, TypeOK, Goto, local, locks, services,
        channels, shell, flags, RegistryInv, HoldInv, FinInv, Stopping, Home,
        Kill
<1> k \in Actors /\ None \notin Conns BY DEF Actors
<1>1. CASE ReapZombie(k) BY <1>1 DEF ReapZombie
<1>2. CASE WriterWrites(k) BY <1>2 DEF WriterWrites
<1>3. CASE WriterEnds(k) BY <1>3 DEF WriterEnds
<1>4. CASE ReaderReads(k) BY <1>4 DEF ReaderReads
<1>5. CASE ReaderEnds(k) BY <1>5 DEF ReaderEnds
<1>6. CASE ShellWrites(k) BY <1>6 DEF ShellWrites
<1>7. CASE ShellEnds(k) BY <1>7 DEF ShellEnds
<1> QED BY <1>1, <1>2, <1>3, <1>4, <1>5, <1>6, <1>7 DEF SessionStep

\* A finished reader.
LEMMA CallFin ==
    ASSUME Inv, NEW a \in Actors, CallStep(a)
    PROVE  FinInv'
<1> USE TerminalAssumption DEF Inv, TypeOK, Goto, local, locks, services,
        channels, shell, flags, FinInv, HoldInv, RegistryInv, MadeInv,
        Stopping, Home, Kill
<1> None \notin Conns BY DEF Actors
<1>1. CASE Drop(a)
  <2>1. CASE DropStops(a) BY <2>1 DEF DropStops, Released
  <2>2. CASE DropFinished(a) BY <2>2 DEF DropFinished
  <2>3. CASE DropService(a) BY <2>3 DEF DropService, SvcReleased
  <2>4. CASE DropEnds(a) BY <2>4 DEF DropEnds
  <2> QED BY <1>1, <2>1, <2>2, <2>3, <2>4 DEF Drop
<1>2. CASE Stop(a) BY <1>2 DEF Stop
<1>3. CASE StopSend(a) BY <1>3 DEF StopSend
<1>4. CASE JoinReader(a) BY <1>4 DEF JoinReader
<1>5. CASE JoinWriter(a) BY <1>5 DEF JoinWriter
<1>6. CASE Remove(a) BY <1>6 DEF Remove
<1>7. CASE RemoveSvc(a) BY <1>7 DEF RemoveSvc
<1>8. CASE RemoveSess(a) BY <1>8 DEF RemoveSess
<1> QED BY <1>1, <1>2, <1>3, <1>4, <1>5, <1>6, <1>7, <1>8 DEF CallStep

\* The same for the steps of a connection.
LEMMA ConnFin ==
    ASSUME Inv, NEW c \in Conns, ConnCallStep(c) \/ Begin(c) \/ Tick(c)
    PROVE  FinInv'
<1> USE TerminalAssumption DEF Inv, TypeOK, Goto, local, locks, services,
        channels, shell, flags, FinInv, HoldInv, RegistryInv, MadeInv,
        Stopping, Home, Kill
<1> c \in Actors /\ None \notin Conns BY DEF Actors
<1>1. CASE LoginFull(c) BY <1>1 DEF LoginFull
<1>2. CASE Login(c) BY <1>2 DEF Login
<1>3. CASE OpenLock(c) BY <1>3 DEF OpenLock
<1>4. CASE Reopen(c) BY <1>4 DEF Reopen
<1>5. CASE Open(c) BY <1>5 DEF Open
<1>6. CASE OpenFails(c) BY <1>6 DEF OpenFails
<1>7. CASE Lookup(c) BY <1>7 DEF Lookup
<1>8. CASE Lock(c) BY <1>8 DEF Lock
<1>9. CASE Send(c) BY <1>9 DEF Send
<1>10. CASE Close(c) BY <1>10 DEF Close
<1>11. CASE CloseKill(c) BY <1>11 DEF CloseKill
<1>12. CASE TickBusy(c) BY <1>12 DEF TickBusy
<1>13. CASE TickCheck(c) BY <1>13 DEF TickCheck
<1>14. CASE TickDrain(c) BY <1>14 DEF TickDrain
<1>15. CASE Closed(c) BY <1>15 DEF Closed
<1>16. CASE Reap(c) BY <1>16 DEF Reap
<1>17. CASE LoginLock(c) BY <1>17 DEF LoginLock
<1>18. CASE ActOpen(c) BY <1>18 DEF ActOpen, Act
<1>19. CASE ActData(c) BY <1>19 DEF ActData, Act
<1>20. CASE ActClose(c) BY <1>20 DEF ActClose, Act
<1>21. CASE Disconnect(c) BY <1>21 DEF Disconnect
<1>22. CASE Tick(c) BY <1>22 DEF Tick, Term
<1> QED BY <1>1, <1>2, <1>3, <1>4, <1>5, <1>6, <1>7, <1>8, <1>9, <1>10, <1>11,
           <1>12, <1>13, <1>14, <1>15, <1>16, <1>17, <1>18, <1>19, <1>20,
           <1>21, <1>22 DEF ConnCallStep, Begin

\* The same for the steps of a session.
LEMMA SessionFin ==
    ASSUME Inv, NEW k \in Conns, SessionStep(k)
    PROVE  FinInv'
<1> USE TerminalAssumption DEF Inv, TypeOK, Goto, local, locks, services,
        channels, shell, flags, FinInv, HoldInv, RegistryInv, MadeInv,
        Stopping, Home, Kill
<1> k \in Actors /\ None \notin Conns BY DEF Actors
<1>1. CASE ReapZombie(k) BY <1>1 DEF ReapZombie
<1>2. CASE WriterWrites(k) BY <1>2 DEF WriterWrites
<1>3. CASE WriterEnds(k) BY <1>3 DEF WriterEnds
<1>4. CASE ReaderReads(k) BY <1>4 DEF ReaderReads
<1>5. CASE ReaderEnds(k) BY <1>5 DEF ReaderEnds
<1>6. CASE ShellWrites(k) BY <1>6 DEF ShellWrites
<1>7. CASE ShellEnds(k) BY <1>7 DEF ShellEnds
<1> QED BY <1>1, <1>2, <1>3, <1>4, <1>5, <1>6, <1>7 DEF SessionStep

\* What NoShellLost looks at.
heldVars == <<reg, term, sv, ss, child, owner, tx, reader>>

\* A step that leaves all this alone loses nothing.
LEMMA SameKept ==
    ASSUME NoShellLost, UNCHANGED heldVars
    PROVE  NoShellLost'
  BY DEF heldVars, NoShellLost, Stopped, KeptSess, KeptSvc

\* A session that is taken out of a service by one who holds nothing else, is
\* held by him.
LEMMA TakenOut ==
    ASSUME Inv, NEW a \in Actors, sv[a] \in Conns, ss[a] = None,
           ss' = [ss EXCEPT ![a] = term[sv[a]]],
           term' = [term EXCEPT ![sv[a]] = None],
           UNCHANGED <<reg, sv, child, owner, tx, reader>>
    PROVE  NoShellLost'
<1> SUFFICES ASSUME NEW o \in Conns, ~Stopped(o) PROVE KeptSess(o, None)'
  BY DEF Inv, NoShellLost, Stopped
<1> USE TerminalAssumption DEF Inv, TypeOK
<1>1. None \notin Conns BY DEF Actors
<1>2. KeptSess(o, None) BY DEF NoShellLost
<1>3. CASE term[sv[a]] = o BY <1>1, <1>3 DEF KeptSess
<1>4. CASE term[sv[a]] # o
  <2>1. CASE \E b \in Actors : ss[b] = o
    <3>1. PICK b \in Actors : ss[b] = o BY <2>1
    <3>2. ss'[b] = o /\ b # None BY <1>1, <3>1
    <3> QED BY <3>2 DEF KeptSess
  <2>2. CASE \E v \in Conns : term[v] = o /\ KeptSvc(v, None)
    <3>1. PICK v \in Conns : term[v] = o /\ KeptSvc(v, None) BY <2>2
    <3>2. term'[v] = o /\ KeptSvc(v, None)' BY <1>4, <3>1 DEF KeptSvc
    <3> QED BY <3>2 DEF KeptSess
  <2> QED BY <1>2, <2>1, <2>2 DEF KeptSess
<1> QED BY <1>3, <1>4

\* No session is let go of before it is stopped.
LEMMA CallKept ==
    ASSUME Inv, NEW a \in Actors, CallStep(a)
    PROVE  NoShellLost'
<1> USE TerminalAssumption DEF Inv, TypeOK, Goto, local, locks, services,
        channels, shell, flags, NoShellLost, KeptSess, KeptSvc, Stopped,
        HoldInv, MadeInv, Stopping, Kill
<1> None \notin Conns BY DEF Actors
<1>1. CASE Drop(a)
  <2>1. CASE DropStops(a) BY <2>1, SameKept DEF DropStops, heldVars
  <2>2. CASE DropFinished(a)
    <3> SUFFICES ASSUME NEW o \in Conns, ~Stopped(o) PROVE KeptSess(o, None)'
      BY <2>2 DEF DropFinished
    <3>1. KeptSess(o, a)
      <4>1. KeptSess(o, None) OBVIOUS
      <4>2. CASE ss[a] = o BY <2>2, <4>2 DEF DropFinished, Released
      <4>3. CASE ss[a] # o BY <4>1, <4>3
      <4> QED BY <4>2, <4>3
    <3> QED BY <2>2, <3>1 DEF DropFinished
  <2>3. CASE DropService(a)
    <3> SUFFICES ASSUME NEW o \in Conns, ~Stopped(o) PROVE KeptSess(o, None)'
      BY <2>3 DEF DropService
    <3> USE <2>3 DEF DropService, SvcReleased
    <3>1. sv[a] \in Conns OBVIOUS
    <3>2. KeptSess(o, None) OBVIOUS
    <3>3. CASE term[sv[a]] = o BY <3>1, <3>3
    <3>4. CASE term[sv[a]] # o /\ ss[a] # o BY <3>1, <3>2, <3>4
    <3>5. CASE term[sv[a]] # o /\ ss[a] = o
      <4>1. KeptSess(o, a) BY <3>5 DEF Released
      <4> QED BY <3>1, <3>5, <4>1
    <3> QED BY <3>3, <3>4, <3>5
  <2>4. CASE DropEnds(a)
    <3> SUFFICES ASSUME NEW o \in Conns, ~Stopped(o) PROVE KeptSess(o, None)'
      BY <2>4 DEF DropEnds
    <3>1. KeptSess(o, a)
      <4>1. KeptSess(o, None) OBVIOUS
      <4>2. CASE ss[a] = o BY <2>4, <4>2 DEF DropEnds, Released
      <4>3. CASE ss[a] # o BY <4>1, <4>3
      <4> QED BY <4>2, <4>3
    <3>2. CASE \E b \in Actors \ {a} : ss[b] = o
      BY <2>4, <3>2 DEF DropEnds
    <3>3. CASE \E v \in Conns : term[v] = o /\ KeptSvc(v, None)
      <4>1. PICK v \in Conns : term[v] = o /\ KeptSvc(v, None) BY <3>3
      <4>2. KeptSvc(v, a)
        <5>1. CASE sv[a] = v BY <2>4, <4>1, <5>1 DEF DropEnds, SvcReleased
        <5>2. CASE sv[a] # v BY <4>1, <5>2
        <5> QED BY <5>1, <5>2
      <4>3. KeptSvc(v, None)' BY <2>4, <4>2 DEF DropEnds
      <4> QED BY <2>4, <4>1, <4>3 DEF DropEnds
    <3> QED BY <3>1, <3>2, <3>3
  <2> QED BY <1>1, <2>1, <2>2, <2>3, <2>4 DEF Drop
<1>2. CASE Stop(a) BY <1>2, SameKept DEF Stop, heldVars
<1>3. CASE StopSend(a) BY <1>3 DEF StopSend
<1>4. CASE JoinReader(a) BY <1>4 DEF JoinReader
<1>5. CASE JoinWriter(a) BY <1>5 DEF JoinWriter
<1>6. CASE Remove(a) BY <1>6 DEF Remove
<1>7. CASE RemoveSvc(a) BY <1>7 DEF RemoveSvc
<1>8. CASE RemoveSess(a) BY <1>8 DEF RemoveSess
<1> QED BY <1>1, <1>2, <1>3, <1>4, <1>5, <1>6, <1>7, <1>8 DEF CallStep

\* The same for the steps of a connection.
LEMMA ConnKept ==
    ASSUME Inv, NEW c \in Conns, ConnCallStep(c) \/ Begin(c) \/ Tick(c)
    PROVE  NoShellLost'
<1> USE TerminalAssumption DEF Inv, TypeOK, Goto, local, locks, services,
        channels, shell, flags, NoShellLost, KeptSess, KeptSvc, Stopped,
        HoldInv, MadeInv, Stopping, Kill
<1> c \in Actors /\ None \notin Conns BY DEF Actors
<1>1. CASE LoginFull(c) BY <1>1, SameKept DEF LoginFull, heldVars
<1>2. CASE Login(c) BY <1>2 DEF Login
<1>3. CASE OpenLock(c) BY <1>3, SameKept DEF OpenLock, heldVars
<1>4. CASE Reopen(c) BY <1>4, SameKept DEF Reopen, heldVars
<1>5. CASE Open(c)
  <2> USE <1>5 DEF Open
  <2>1. sv[c] \in Conns OBVIOUS
  <2>2. ASSUME NEW o \in Conns, child'[o] = "running" PROVE owner'[o] # None
    BY <2>2
  <2>3. ASSUME NEW o \in Conns, ~Stopped(o)' PROVE KeptSess(o, None)'
    <3>1. CASE o = c BY <2>1, <3>1
    <3>2. CASE o # c
      <4>1. ~Stopped(o) BY <2>3, <3>2
      <4>2. KeptSess(o, None) BY <4>1
      <4> QED BY <2>1, <3>2, <4>2
    <3> QED BY <3>1, <3>2
  <2> QED BY <2>2, <2>3
<1>6. CASE OpenFails(c) BY <1>6, SameKept DEF OpenFails, heldVars
<1>7. CASE Lookup(c) BY <1>7 DEF Lookup
<1>8. CASE Lock(c) BY <1>8, SameKept DEF Lock, heldVars
<1>9. CASE Send(c) BY <1>9, SameKept DEF Send, heldVars
<1>10. CASE Close(c)
  <2>1. sv[c] \in Conns /\ ss[c] = None BY <1>10 DEF Close
  <2> QED BY <1>10, <2>1, TakenOut DEF Close
<1>11. CASE CloseKill(c) BY <1>11 DEF CloseKill
<1>12. CASE TickBusy(c) BY <1>12, SameKept DEF TickBusy, heldVars
<1>13. CASE TickCheck(c) BY <1>13, SameKept DEF TickCheck, heldVars
<1>14. CASE TickDrain(c) BY <1>14, SameKept DEF TickDrain, heldVars
<1>15. CASE Closed(c)
  <2>1. sv[c] \in Conns /\ ss[c] = None BY <1>15 DEF Closed
  <2> QED BY <1>15, <2>1, TakenOut DEF Closed
<1>16. CASE Reap(c)
  <2>1. \A o \in Conns : /\ child'[o] = "running" => owner'[o] # None
                         /\ Stopped(o) => Stopped(o)'
    BY <1>16 DEF Reap
  <2>2. \A o \in Conns : KeptSess(o, None) => KeptSess(o, None)'
    BY <1>16 DEF Reap
  <2> QED BY <2>1, <2>2
<1>17. CASE LoginLock(c) BY <1>17, SameKept DEF LoginLock, heldVars
<1>18. CASE ActOpen(c) BY <1>18 DEF ActOpen, Act
<1>19. CASE ActData(c) BY <1>19 DEF ActData, Act
<1>20. CASE ActClose(c) BY <1>20 DEF ActClose, Act
<1>21. CASE Disconnect(c) BY <1>21, SameKept DEF Disconnect, heldVars
<1>22. CASE Tick(c) BY <1>22 DEF Tick, Term
<1> QED BY <1>1, <1>2, <1>3, <1>4, <1>5, <1>6, <1>7, <1>8, <1>9, <1>10, <1>11,
           <1>12, <1>13, <1>14, <1>15, <1>16, <1>17, <1>18, <1>19, <1>20,
           <1>21, <1>22 DEF ConnCallStep, Begin

\* The same for the steps of a session.
LEMMA SessionKept ==
    ASSUME Inv, NEW k \in Conns, SessionStep(k)
    PROVE  NoShellLost'
<1> USE TerminalAssumption DEF Inv, TypeOK, Goto, local, locks, services,
        channels, shell, flags, NoShellLost, KeptSess, KeptSvc, Stopped,
        HoldInv, MadeInv, Stopping, Kill
<1> k \in Actors /\ None \notin Conns BY DEF Actors
<1>1. CASE ReapZombie(k) BY <1>1 DEF ReapZombie
<1>2. CASE WriterWrites(k) BY <1>2 DEF WriterWrites
<1>3. CASE WriterEnds(k) BY <1>3 DEF WriterEnds
<1>4. CASE ReaderReads(k) BY <1>4 DEF ReaderReads
<1>5. CASE ReaderEnds(k) BY <1>5 DEF ReaderEnds
<1>6. CASE ShellWrites(k) BY <1>6 DEF ShellWrites
<1>7. CASE ShellEnds(k) BY <1>7 DEF ShellEnds
<1> QED BY <1>1, <1>2, <1>3, <1>4, <1>5, <1>6, <1>7 DEF SessionStep

-----------------------------------------------------------------------------
(* The invariant. *)

\* All parts of the invariant but NothingLeft, which follows from them.
Parts == /\ TypeOK /\ NoShellLost /\ HoldInv /\ MadeInv /\ JoinInv
         /\ RegistryInv /\ FinInv

\* When all are gone nothing is left: who is not in a call holds nothing, so
\* nobody keeps a session, and a session nobody keeps is stopped.
LEMMA PartsNothingLeft == Parts => NothingLeft
<1> SUFFICES ASSUME Parts, pc[Cleaner] = "scan",
                    \A c \in Conns : pc[c] \in {"new", "gone"}
             PROVE  /\ reg = None /\ regLock = None
                    /\ \A k \in Conns : /\ owner[k] # k
                                         /\ reader[k] \in {"none", "joined"}
                                         /\ writer[k] \in {"none", "joined"}
  BY DEF NothingLeft
<1> USE TerminalAssumption DEF Parts, TypeOK
<1>1. None \notin Conns BY DEF Actors
<1>2. \A a \in Actors : /\ pc[a] \in {"new", "gone", "scan"}
                        /\ sv[a] = None /\ ss[a] = None
  <2>1. \A a \in Actors : pc[a] \in {"new", "gone", "scan"} BY DEF Actors
  <2> QED BY <2>1 DEF HoldInv
<1>3. reg = None BY DEF RegistryInv
<1>4. regLock = None BY <1>2 DEF RegistryInv, Stopping
<1>5. ASSUME NEW k \in Conns
      PROVE  /\ owner[k] # k /\ reader[k] \in {"none", "joined"}
             /\ writer[k] \in {"none", "joined"}
  <2>1. ~KeptSess(k, None) BY <1>1, <1>2, <1>3 DEF KeptSess, KeptSvc
  <2>2. Stopped(k) BY <2>1 DEF NoShellLost
  <2>3. owner[k] # k /\ reader[k] \in {"none", "joined"} BY <2>2 DEF Stopped
  <2>4. reader[k] = "none" => writer[k] = "none" BY DEF MadeInv
  <2>5. reader[k] = "joined" => writer[k] = "joined" BY <1>1, <1>2 DEF JoinInv
  <2> QED BY <2>3, <2>4, <2>5
<1> QED BY <1>3, <1>4, <1>5

\* Nothing is there at the beginning.
LEMMA InitInv == Init => Inv
<1> SUFFICES ASSUME Init PROVE Inv OBVIOUS
<1> USE TerminalAssumption
<1> None \notin Conns BY DEF Actors
<1>1. TypeOK
  <2>1. /\ pc \in [Actors -> PCs] /\ sv \in [Actors -> Conns \cup {None}]
        /\ ss \in [Actors -> Conns \cup {None}]
        /\ fin \in [Actors -> Conns \cup {None}]
        /\ finOpened \in [Actors -> BOOLEAN]
    BY DEF Init, PCs
  <2>2. /\ input \in [Conns -> 0..Capacity] /\ output \in [Conns -> 0..Capacity]
        /\ owner \in [Conns -> Conns \cup {None} \cup {"reaper"}]
        /\ child \in [Conns -> {"none", "running", "ended", "killed"}]
        /\ reader \in [Conns -> Threads] /\ writer \in [Conns -> Threads]
    BY DEF Init, Threads
  <2> QED BY <2>1, <2>2 DEF Init, TypeOK
<1>2. NoShellLost BY <1>1 DEF Init, NoShellLost, Stopped, Actors
<1>3. HoldInv /\ MadeInv /\ JoinInv
  BY DEF Init, HoldInv, MadeInv, JoinInv, Stopping, Actors
<1>4. RegistryInv /\ FinInv BY DEF Init, RegistryInv, FinInv
<1> QED BY <1>1, <1>2, <1>3, <1>4, PartsNothingLeft DEF Inv, Parts

\* The clean-up thread finds a service idle: it only takes note of that.
LEMMA IdleParts ==
    ASSUME Inv, HourPasses \/ FindIdle
    PROVE  Parts'
<1> USE TerminalAssumption DEF Inv, HourPasses, FindIdle, Goto, local, locks,
        services, channels, shell, flags
<1> None \notin Conns /\ Cleaner \in Actors BY DEF Actors
<1>1. TypeOK'
  <2>1. pc' \in [Actors -> PCs] BY DEF TypeOK, PCs
  <2>2. idle' \in BOOLEAN BY DEF TypeOK
  <2>3. UNCHANGED <<local, locks, reg, term, channels, shell, flags>> OBVIOUS
  <2> QED BY <2>1, <2>2, <2>3 DEF TypeOK
<1>2. NoShellLost' BY DEF NoShellLost, Stopped, KeptSess, KeptSvc
<1>3. HoldInv' BY DEF HoldInv, TypeOK, Stopping
<1>4. MadeInv' BY DEF MadeInv
<1>5. JoinInv' BY DEF JoinInv, TypeOK
<1>6. RegistryInv'
  <2>1. CASE HourPasses BY <2>1 DEF RegistryInv
  <2>2. CASE FindIdle
    <3>1. \A c \in Conns : pc'[c] = pc[c] BY <2>2 DEF TypeOK, Actors
    <3>2. regLock = None /\ regLock' = None /\ reg' = reg BY <2>2
    <3> QED BY <3>1, <3>2 DEF RegistryInv
  <2> QED BY <2>1, <2>2
<1>7. FinInv' BY DEF FinInv, TypeOK, Stopping
<1> QED BY <1>1, <1>2, <1>3, <1>4, <1>5, <1>6, <1>7 DEF Parts

\* The invariant is inductive.
LEMMA NextInv == Inv /\ [Next]_vars => Inv'
<1> SUFFICES ASSUME Inv, [Next]_vars PROVE Parts'
  BY PartsNothingLeft, PTL DEF Inv, Parts
<1>1. ASSUME NEW a \in Actors, CallStep(a) PROVE Parts'
  BY <1>1, CallType, CallHolds, CallMade, CallJoin, CallRegistry, CallFin,
     CallKept DEF Parts
<1>2. ASSUME NEW c \in Conns, ConnCallStep(c) \/ Begin(c) \/ Tick(c)
      PROVE  Parts'
  BY <1>2, ConnType, ConnHolds, ConnMade, ConnJoin, ConnRegistry, ConnFin,
     ConnKept DEF Parts
<1>3. ASSUME NEW k \in Conns, SessionStep(k) PROVE Parts'
  BY <1>3, SessionType, SessionHolds, SessionMade, SessionJoin,
     SessionRegistry, SessionFin, SessionKept DEF Parts
<1>4. CASE HourPasses \/ FindIdle BY <1>4, IdleParts
<1>5. CASE UNCHANGED vars
  <2> USE <1>5 DEF vars, Inv, local, locks, services, channels, shell, flags
  <2>1. TypeOK' BY DEF TypeOK
  <2>2. NoShellLost' BY DEF NoShellLost, Stopped, KeptSess, KeptSvc
  <2>3. HoldInv' /\ MadeInv' /\ JoinInv' BY DEF HoldInv, MadeInv, JoinInv
  <2>4. RegistryInv' /\ FinInv' BY DEF RegistryInv, FinInv
  <2> QED BY <2>1, <2>2, <2>3, <2>4 DEF Parts
<1> QED BY <1>1, <1>2, <1>3, <1>4, <1>5 DEF Next, SessionStep

\* No shell, thread or service is forgotten, whichever of any number of
\* connections and the clean-up thread opens, closes, reads and removes the
\* terminal; and when the last connection has gone nothing of it is left.
THEOREM NothingForgotten == Spec => []Inv
  BY InitInv, NextInv, PTL DEF Spec

-----------------------------------------------------------------------------
(* The output comes before the end. *)

\* The steps of a call do not touch the output.
LEMMA CallOutput ==
    ASSUME Inv, OutputBeforeClosed, NEW a \in Actors, CallStep(a)
    PROVE  OutputBeforeClosed'
  BY DEF OutputBeforeClosed, CallStep, Drop, DropStops, DropFinished,
         DropService, DropEnds, Stop, StopSend, JoinReader, JoinWriter, Remove,
         RemoveSvc, RemoveSess, local, locks, services, channels, shell, flags

\* Of those of a connection only the timer's do: it drains the channel of a
\* terminal after it has looked at the reader.
LEMMA ConnOutput ==
    ASSUME Inv, OutputBeforeClosed, NEW c \in Conns,
           ConnCallStep(c) \/ Begin(c) \/ Tick(c)
    PROVE  OutputBeforeClosed'
<1> USE TerminalAssumption DEF Inv, TypeOK, OutputBeforeClosed, Goto, local, locks,
        services, channels, shell, flags
<1> c \in Actors /\ None \notin Conns /\ Conns \subseteq Actors BY DEF Actors
<1>1. CASE TickCheck(c)
  <2>1. ~finOpened[c] BY <1>1 DEF TickCheck, FinInv, Stopping
  <2> QED BY <1>1, <2>1 DEF TickCheck
<1>2. CASE TickDrain(c)
  <2>1. fin[c] # None => fin[c] = ss[c] BY <1>2 DEF TickDrain, FinInv
  <2> QED BY <1>2, <2>1 DEF TickDrain, HoldInv
<1>3. CASE Closed(c) BY <1>3 DEF Closed
<1>4. ASSUME UNCHANGED <<fin, finOpened, output>> PROVE OutputBeforeClosed'
  BY <1>4
<1>5. CASE \/ LoginFull(c) \/ Login(c) \/ OpenLock(c) \/ Reopen(c) \/ Open(c)
           \/ OpenFails(c) \/ Lookup(c) \/ Lock(c) \/ Send(c) \/ Close(c)
           \/ CloseKill(c) \/ TickBusy(c) \/ Reap(c) \/ Begin(c) \/ Tick(c)
  BY <1>4, <1>5 DEF LoginFull, Login, OpenLock, Reopen, Open, OpenFails,
     Lookup, Lock, Send, Close, CloseKill, TickBusy, Reap, Begin, LoginLock,
     ActOpen, ActData, ActClose, Act, Disconnect, Tick
<1> QED BY <1>1, <1>2, <1>3, <1>5 DEF ConnCallStep

\* A reader that has finished adds nothing.
LEMMA SessionOutput ==
    ASSUME Inv, OutputBeforeClosed, NEW k \in Conns, SessionStep(k)
    PROVE  OutputBeforeClosed'
<1> USE TerminalAssumption DEF Inv, TypeOK, OutputBeforeClosed, local, locks,
        services, channels, shell, flags
<1>1. CASE ReaderReads(k)
  <2>1. ASSUME NEW c \in Conns, fin[c] # None PROVE fin[c] # k
    BY <1>1, <2>1 DEF ReaderReads, FinInv, Actors
  <2> QED BY <1>1, <2>1 DEF ReaderReads, Actors
<1>2. CASE ~ReaderReads(k)
  BY <1>2 DEF SessionStep, ReapZombie, WriterWrites, WriterEnds, ReaderEnds,
              ShellWrites, ShellEnds
<1> QED BY <1>1, <1>2

\* A connection reports an opened terminal as closed only after it has sent
\* all its output, for any number of connections that read it.
THEOREM OutputIsSent == Spec => []OutputBeforeClosed
<1>1. Init => OutputBeforeClosed BY DEF Init, OutputBeforeClosed, Actors
<1>2. Inv /\ OutputBeforeClosed /\ [Next]_vars => OutputBeforeClosed'
  <2> SUFFICES ASSUME Inv, OutputBeforeClosed, [Next]_vars
               PROVE  OutputBeforeClosed'
    OBVIOUS
  <2>1. CASE UNCHANGED vars \/ HourPasses \/ FindIdle
    BY <2>1 DEF OutputBeforeClosed, vars, local, channels, HourPasses, FindIdle
  <2> QED BY <2>1, CallOutput, ConnOutput, SessionOutput DEF Next, SessionStep
<1> QED BY <1>1, <1>2, NothingForgotten, PTL DEF Spec

=============================================================================
