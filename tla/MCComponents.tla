---------------------------- MODULE MCComponents ----------------------------
(***************************************************************************)
(* Instances of the small components for TLC, side by side: the queue and  *)
(* the write buffer, the keyed list, the two readers of lines, the text of *)
(* the protocol, why3cpulimit on either system, the random numbers, the    *)
(* carry loops and the proof scheduler.                                    *)
(* They share no state.  A behaviour is one of the component `subject`;    *)
(* the others rest in an initial state, so that the state spaces add up    *)
(* instead of multiplying.                                                 *)
(***************************************************************************)
EXTENDS WriteQueue, ArrayList, ReadBuf, ReadLines, Protocol, CpuLimit, CpuLimitWin, Mt19937, CarryLoops, Controller, TLC

CONSTANTS m1, m2
TwoMessages == {m1, m2}
Sizes == (m1 :> 1) @@ (m2 :> 2)

MCFields == {<<>>, run, runstdin, parallel_word, interrupt, <<"r", "s", "s">>, <<"1", "2">>}
MCNames == {<<"a">>, run}
MCOutFiles == {<<"f">>, <<"f", SEMI, "g", SEMI>>}

MCFactors == <<5, 3, 7>>
MCStrategy == <<Calls(<<m1, m2>>), Transform(3), Calls(<<m1>>)>>

\* The last key makes the loops of init_by_array64 leave nothing but zeros.
MCKeys == {<<0>>, <<1, 2>>, <<3, 7, 0, 5, 9>>, <<0, 0, 4, 6>>}

VARIABLE subject

readerVars == <<readVars, lineVars>>
vars == <<composedVars, listVars, readerVars, protocolVars, cpuVars, winCpuVars, mtVars, loopVars, ctlVars, subject>>

\* The two programs that split a stream into lines are given the same pieces,
\* whose largest size is the same for both; neither sees the other.
ReadersNext == \E piece \in Pieces(READ_ONCE) : ReadOnClient(piece) /\ ReadPiece(piece)

Init ==
  /\ InitComposed /\ InitList /\ InitReadbuf /\ InitLines /\ ProtocolInit /\ CpuInit /\ WinCpuInit
  /\ MtInit /\ LoopInit /\ CtlInit
  /\ subject \in {"queue", "list", "readers", "protocol", "cpulimit", "cpulimit-win", "random", "carry", "controller"}
  /\ subject # "cpulimit" => \A o \in DOMAIN opts : ~opts[o]
  /\ subject # "carry" => loop = "mpn_add_n" /\ vlimb = 0
  /\ subject # "cpulimit-win" => \A o \in DOMAIN wopts : ~wopts[o]

Next ==
  /\ UNCHANGED subject
  /\ \/ /\ subject = "queue" /\ ComposedNext
        /\ UNCHANGED <<listVars, readerVars, protocolVars, cpuVars, winCpuVars, mtVars, loopVars, ctlVars>>
     \/ /\ subject = "list" /\ ListNext
        /\ UNCHANGED <<composedVars, readerVars, protocolVars, cpuVars, winCpuVars, mtVars, loopVars, ctlVars>>
     \/ /\ subject = "readers" /\ ReadersNext
        /\ UNCHANGED <<composedVars, listVars, protocolVars, cpuVars, winCpuVars, mtVars, loopVars, ctlVars>>
     \/ /\ subject = "protocol" /\ ProtocolNext
        /\ UNCHANGED <<composedVars, listVars, readerVars, cpuVars, winCpuVars, mtVars, loopVars, ctlVars>>
     \/ /\ subject = "cpulimit" /\ CpuNext
        /\ UNCHANGED <<composedVars, listVars, readerVars, protocolVars, winCpuVars, mtVars, loopVars, ctlVars>>
     \/ /\ subject = "cpulimit-win" /\ WinCpuNext
        /\ UNCHANGED <<composedVars, listVars, readerVars, protocolVars, cpuVars, mtVars, loopVars, ctlVars>>
     \/ /\ subject = "random" /\ MtNext
        /\ UNCHANGED <<composedVars, listVars, readerVars, protocolVars, cpuVars, winCpuVars, loopVars, ctlVars>>
     \/ /\ subject = "carry" /\ LoopNext
        /\ UNCHANGED <<composedVars, listVars, readerVars, protocolVars, cpuVars, winCpuVars, mtVars, ctlVars>>
     \/ /\ subject = "controller" /\ CtlNext
        /\ UNCHANGED <<composedVars, listVars, readerVars, protocolVars, cpuVars, winCpuVars, mtVars, loopVars>>

\* Fairness of the three components that have any.
Fairness ==
  /\ WF_cpuVars(subject = "cpulimit" /\ CpuParent)
  /\ \A p \in Processes : WF_cpuVars(subject = "cpulimit" /\ CpuStart(p))
  /\ WF_winCpuVars(subject = "cpulimit-win" /\ WinCpuMain)
  /\ WF_winCpuVars(subject = "cpulimit-win" /\ WinCpuHandler)
  /\ WF_ctlVars(subject = "controller" /\ Loop)
  /\ WF_answers(subject = "controller" /\ Fetch)
  /\ WF_ctlVars(subject = "controller" /\ Server)

Spec == Init /\ [][Next]_vars /\ Fairness

=============================================================================
