-------------------------------- MODULE RlBridge --------------------------------
(***************************************************************************)
(* The file-based request/response bridge between the simulator and the    *)
(* policy network: src/src/dash/model/client.py (the bridge) and the       *)
(* simulator side described in spec.md section 6 (its code is not in this  *)
(* repository).  Files are shared state; every file-system call of either  *)
(* process is one atomic step, so the model explores every interleaving of *)
(* the two polling loops.  A request carries its number; the action the    *)
(* bridge computes for request n is written as n.                          *)
(***************************************************************************)
EXTENDS Integers

CONSTANTS
    MaxRequests,  \* requests the simulator sends in a session
    StaleFiles,   \* TRUE: a previous session left its response files behind
    EvalMayFail   \* TRUE: parsing the state or get_action may raise

ASSUME MaxRequests \in Nat \ {0} /\ StaleFiles \in BOOLEAN /\ EvalMayFail \in BOOLEAN

Absent == -1   \* the file does not exist
Empty  == 0    \* the file exists and is empty (opened with 'w', not yet written)
Ids == 1..MaxRequests
StaleAction == MaxRequests + 1   \* an action written by an earlier session
Content == {Absent, Empty, StaleAction} \cup Ids

VARIABLES
    req, req_flag,    \* <client>_req and <client>_req_flag
    resp, resp_flag,  \* <client>_resp and <client>_resp_flag
    listening,        \* <client>_listening exists
    bpc,              \* the bridge's position in its loop
    state,            \* the request content the bridge read
    spc,              \* the simulator's position
    sent,             \* number of the simulator's last request
    got               \* the action the simulator last read
vars == <<req, req_flag, resp, resp_flag, listening, bpc, state, spc, sent, got>>

BridgePcs == {"listen", "check_flag", "check_req", "read", "rm_req", "rm_flag",
              "evaluate", "open_resp", "write_resp", "flag_resp", "sleep",
              "closed", "crashed"}
SimPcs == {"idle", "write_req", "flag_req", "wait", "read_resp",
           "rm_resp_flag", "rm_resp", "stopped"}

TypeOK ==
    /\ req \in Content /\ resp \in Content
    /\ req_flag \in BOOLEAN /\ resp_flag \in BOOLEAN /\ listening \in BOOLEAN
    /\ bpc \in BridgePcs /\ state \in Content
    /\ spc \in SimPcs /\ sent \in 0..MaxRequests /\ got \in Content

\* The simulator creates the listening marker and starts the bridge; the
\* files of a crashed earlier session may still be there.
Init ==
    /\ req = Absent /\ req_flag = FALSE
    /\ IF StaleFiles THEN resp = StaleAction /\ resp_flag = TRUE
                     ELSE resp = Absent /\ resp_flag = FALSE
    /\ listening = TRUE
    /\ bpc = "listen" /\ state = Absent
    /\ spc = "idle" /\ sent = 0 /\ got = Absent

Sim(from, to) == spc = from /\ spc' = to
Bridge(from, to) == bpc = from /\ bpc' = to
SimVars == <<spc, sent, got>>
BridgeVars == <<bpc, state>>
Files == <<req, req_flag, resp, resp_flag, listening>>

-----------------------------------------------------------------------------
(* The bridge, client.py lines 65-89.                                      *)

\* while exists(client_name + "_listening"): ... ; print("... closed")
BridgeCheckListening ==
    /\ \/ listening /\ Bridge("listen", "check_flag")
       \/ ~listening /\ Bridge("listen", "closed")
    /\ UNCHANGED <<Files, state, SimVars>>

BridgeCheckFlag ==
    /\ \/ req_flag /\ Bridge("check_flag", "check_req")
       \/ ~req_flag /\ Bridge("check_flag", "sleep")
    /\ UNCHANGED <<Files, state, SimVars>>

\* ... and exists(req_filename):
BridgeCheckReq ==
    /\ \/ req # Absent /\ Bridge("check_req", "read")
       \/ req = Absent /\ Bridge("check_req", "sleep")
    /\ UNCHANGED <<Files, state, SimVars>>

\* with open(req_filename, 'r') as req_file: req_lines = req_file.readlines()
BridgeRead ==
    /\ Bridge("read", "rm_req")
    /\ state' = req
    /\ UNCHANGED <<Files, SimVars>>

\* os.remove(req_filename)
BridgeRmReq ==
    /\ Bridge("rm_req", "rm_flag")
    /\ req' = Absent
    /\ UNCHANGED <<req_flag, resp, resp_flag, listening, state, SimVars>>

\* Mutant: os.remove(req_filename_flag) left out.
BridgeRmFlagSkipped ==
    /\ Bridge("rm_flag", "evaluate")
    /\ UNCHANGED <<Files, state, SimVars>>

\* os.remove(req_filename_flag)
BridgeRmFlag ==
    /\ Bridge("rm_flag", "evaluate")
    /\ req_flag' = FALSE
    /\ UNCHANGED <<req, resp, resp_flag, listening, state, SimVars>>

\* state = [float(l) for l in req_lines]; action = get_action(state); the
\* two prints.  Nothing catches an exception of float() or of the network:
\* it ends the process, after both request files were removed.
BridgeEvaluate ==
    /\ \/ Bridge("evaluate", "open_resp")
       \/ EvalMayFail /\ Bridge("evaluate", "crashed")
    /\ UNCHANGED <<Files, state, SimVars>>

\* resp_file = open(resp_filename, 'w'): creates or truncates the file
BridgeOpenResp ==
    /\ Bridge("open_resp", "write_resp")
    /\ resp' = Empty
    /\ UNCHANGED <<req, req_flag, resp_flag, listening, state, SimVars>>

\* Mutant: the action written to resp_filename_flag instead of resp_filename.
BridgeWriteRespWrongFile ==
    /\ Bridge("write_resp", "flag_resp")
    /\ resp_flag' = TRUE
    /\ UNCHANGED <<req, req_flag, resp, listening, state, SimVars>>

\* resp_file.writelines(str(action)); resp_file.close()
BridgeWriteResp ==
    /\ Bridge("write_resp", "flag_resp")
    /\ resp' = state
    /\ UNCHANGED <<req, req_flag, resp_flag, listening, state, SimVars>>

\* Mutant: resp_filename opened (and truncated) in place of the flag file.
BridgeFlagRespWrongFile ==
    /\ Bridge("flag_resp", "sleep")
    /\ resp' = Empty
    /\ UNCHANGED <<req, req_flag, resp_flag, listening, state, SimVars>>

\* resp_file = open(resp_filename_flag, 'w'); resp_file.close()
BridgeFlagResp ==
    /\ Bridge("flag_resp", "sleep")
    /\ resp_flag' = TRUE
    /\ UNCHANGED <<req, req_flag, resp, listening, state, SimVars>>

\* Mutant: the loop goes back to the request test, never to the marker test.
BridgeSleepNoRecheck ==
    /\ Bridge("sleep", "check_flag")
    /\ UNCHANGED <<Files, state, SimVars>>

\* time.sleep(0.0001), back to the loop test
BridgeSleep ==
    /\ Bridge("sleep", "listen")
    /\ UNCHANGED <<Files, state, SimVars>>

-----------------------------------------------------------------------------
(* The simulator, as spec.md section 6 describes its side of the protocol: *)
(* write the state to the request file, then create the request flag; poll *)
(* for the response flag, read the action, remove the response files; at  *)
(* the end remove the listening marker.                                    *)

SimOpenReq ==
    /\ Sim("idle", "write_req")
    /\ sent < MaxRequests
    /\ req' = Empty
    /\ sent' = sent + 1
    /\ UNCHANGED <<req_flag, resp, resp_flag, listening, got, BridgeVars>>

SimWriteReq ==
    /\ Sim("write_req", "flag_req")
    /\ req' = sent
    /\ UNCHANGED <<req_flag, resp, resp_flag, listening, sent, got, BridgeVars>>

SimFlagReq ==
    /\ Sim("flag_req", "wait")
    /\ req_flag' = TRUE
    /\ UNCHANGED <<req, resp, resp_flag, listening, sent, got, BridgeVars>>

SimPollResp ==
    /\ Sim("wait", "read_resp")
    /\ resp_flag
    /\ UNCHANGED <<Files, sent, got, BridgeVars>>

SimReadResp ==
    /\ Sim("read_resp", "rm_resp_flag")
    /\ got' = resp
    /\ UNCHANGED <<Files, sent, BridgeVars>>

SimRmRespFlag ==
    /\ Sim("rm_resp_flag", "rm_resp")
    /\ resp_flag' = FALSE
    /\ UNCHANGED <<req, req_flag, resp, listening, sent, got, BridgeVars>>

SimRmResp ==
    /\ Sim("rm_resp", "idle")
    /\ resp' = Absent
    /\ UNCHANGED <<req, req_flag, resp_flag, listening, sent, got, BridgeVars>>

SimStop ==
    /\ Sim("idle", "stopped")
    /\ listening' = FALSE
    /\ UNCHANGED <<req, req_flag, resp, resp_flag, sent, got, BridgeVars>>

BridgeStep ==
    \/ BridgeCheckListening \/ BridgeCheckFlag \/ BridgeCheckReq
    \/ BridgeRead \/ BridgeRmReq \/ BridgeRmFlag \/ BridgeEvaluate
    \/ BridgeOpenResp \/ BridgeWriteResp \/ BridgeFlagResp \/ BridgeSleep

SimProtocolStep ==
    \/ SimWriteReq \/ SimFlagReq \/ SimPollResp \/ SimReadResp
    \/ SimRmRespFlag \/ SimRmResp

Next == BridgeStep \/ SimProtocolStep \/ SimOpenReq \/ SimStop

\* Both are processes the OS keeps scheduling: the bridge polls without end
\* and the simulator goes on with a request it has started.  Whether the
\* simulator sends another request or stops is its own choice: no fairness.
Spec == Init /\ [][Next]_vars /\ WF_vars(BridgeStep) /\ WF_vars(SimProtocolStep)

-----------------------------------------------------------------------------
ResponseMatchesRequest == spc \in {"rm_resp_flag", "rm_resp"} => got = sent

\* Every request the simulator flags is answered (it gets back to idle),
\* unless an exception has ended the bridge: client.py has no handler, and
\* then the simulator waits for ever.
EveryRequestAnswered == spc = "wait" ~> (spc = "idle" \/ bpc = "crashed")

\* Once the listening marker is removed, the bridge leaves its loop (or
\* has already ended by an exception).
BridgeCloses == ~listening ~> bpc \in {"closed", "crashed"}

\* The file protocol implements a remote call (RlRpc): with the simulator's
\* request counted once it is flagged, and the bridge's answer once its
\* response flag is raised, every step of the two processes is a step of
\* the call or changes nothing the simulator can observe; each request is
\* answered at most once, with its own action, and the answers come in
\* request order.
Rpc == INSTANCE RlRpc
         WITH NoAction <- Absent,
              asked    <- IF spc \in {"write_req", "flag_req"} THEN sent - 1 ELSE sent,
              answered <- IF spc = "wait" /\ ~resp_flag THEN sent - 1
                          ELSE IF spc \in {"write_req", "flag_req"} THEN sent - 1
                          ELSE sent,
              alive    <- bpc # "crashed",
              closed   <- bpc = "closed"
ImplementsRpc == Rpc!Spec
=============================================================================
