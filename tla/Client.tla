------------------------------- MODULE Client -------------------------------
(***************************************************************************)
(* The programs that use a client: one that enumerates a query page by     *)
(* page (tools/readdeps, revdeps, findaffected and others), and one that   *)
(* receives notifications beside its calls (tools/crawldeps).              *)
(***************************************************************************)
EXTENDS Query, Notify

CONSTANT Jobs   \* the programs explored, of clients and others

VARIABLE program

clientVars == <<queryVars, notifyVars, program>>

ClientInit ==
    /\ program \in Jobs
    /\ QueryInit /\ NotifyInit
    /\ program # "enumerates" => query.req = CHOOSE req \in Queries : TRUE

Enumerating(A) == program = "enumerates" /\ A /\ UNCHANGED <<notifyVars, program>>
Receiving(A) == program = "receives" /\ A /\ UNCHANGED <<queryVars, program>>

ClientNext == Enumerating(QueryNext) \/ Receiving(NotifyNext)

ClientSpec == ClientInit /\ [][ClientNext]_clientVars

\* The server and the callbacks answer, the reader and Receive go on, and a
\* Close once begun goes on; whether the program stops or closes is left open.
ClientFairness ==
    /\ WF_clientVars(Enumerating(QueryStep))
    /\ WF_clientVars(Receiving(ServerAnswers))
    /\ WF_clientVars(Receiving(ReaderStep))
    /\ WF_clientVars(Receiving(ReceiverReturns))
    /\ WF_clientVars(Receiving(Closes))
-----------------------------------------------------------------------------
\* The query and the channel have their types.
ClientTypeOK == QueryTypeOK /\ NotifyTypeOK
=============================================================================
