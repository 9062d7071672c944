-------------------------- MODULE MCSocketPrograms --------------------------
(***************************************************************************)
(* The two servers with a single thread: the one that hands out symbols    *)
(* with select, and the calculator.  The one that runs is chosen in Init.  *)
(***************************************************************************)
EXTENDS SelectServer

CONSTANT Nobody

VARIABLES program, server_at, flag, queue, cur, client

Calculator == INSTANCE UnixCalculator WITH server <- server_at

calculatorVars == <<server_at, flag, queue, cur, client>>
allVars == <<program, vars, calculatorVars>>

SocketInit == program \in {"select", "calculator"} /\ Init /\ Calculator!Init

(* An action of one program; the other does nothing. *)
Sel(A) == program = "select" /\ A /\ UNCHANGED <<program, calculatorVars>>
Cal(A) == program = "calculator" /\ A /\ UNCHANGED <<program, vars>>

SocketNext == Sel(Next) \/ Cal(Calculator!Next)

\* Servers and clients are scheduled and the calculator's alarm goes off.  Nothing is
\* assumed of the main of the select clients: its empty loop on an ordinary int may
\* never see the flag.
Fairness ==
    /\ WF_allVars(Sel(ServerStep))
    /\ \A c \in Clients : WF_allVars(Sel(ClientStep(c)))
    /\ WF_allVars(Cal(Calculator!handler))
    /\ WF_allVars(Cal(Calculator!Server))
    /\ \A c \in Clients : WF_allVars(Cal(Calculator!Client(c)))

FairSpec == SocketInit /\ [][SocketNext]_allVars /\ Fairness

-----------------------------------------------------------------------------
\* The types of both.
SocketTypeOK == TypeOK /\ Calculator!TypeOK

\* The only thread of a server sleeps in accept and recv, clients vanish at any moment
\* and the server may be killed by the answer to one; still every client ends.
ClientsEnd ==
    []<>(IF program = "select" THEN EveryClientEnded ELSE Calculator!EverybodyEnded)
=============================================================================
