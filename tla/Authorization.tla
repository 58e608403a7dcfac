---------------------------- MODULE Authorization ----------------------------
(***************************************************************************)
(* How the device proves who it is: the key (store/keystore.go), the token *)
(* in the database and its copy in memory (app/auth.go, app/mender.go),    *)
(* and the requests that carry it (client/client.go, client_auth.go), for  *)
(* the daemon and for the command "mender bootstrap".                      *)
(*                                                                         *)
(* External: the servers, of which each takes one token at a time, the     *)
(* operator, who accepts the device's keys, and the service manager, which *)
(* starts a daemon that crashed but not one that gave up.  Whatever can go *)
(* wrong (a store that fails, a server that is away, a token that expires, *)
(* a crash) costs one of MaxFaults, and so does a start with               *)
(* forceBootstrap.                                                         *)
(***************************************************************************)
EXTENDS Naturals

CONSTANTS
    NServers,       \* conf.Servers, asked in this order
    MaxFaults

ASSUME AuthAssumption == NServers \in Nat \ {0} /\ MaxFaults \in Nat

VARIABLES
    pc,             \* where the process is: "off" if there is none, "down" if
                    \* the daemon has ended with a fatal error
    op,             \* what Bootstrap and the request for a token are part of
    server,         \* the server being asked
    again,          \* the request is being repeated with a new token
    unauthorized,   \* the last answer to it was 401
    staticKey,      \* the key is not to be replaced
    keyDisk,        \* the key in the key store, 0: none
    keyMem,         \* keyStore.private, 0: none
    forceBootstrap,
    lastKey,        \* the number of the key generated last
    signedWith,     \* the key of the last request for a token
    stored,         \* datastore.AuthTokenName, 0: none
    authToken,      \* Mender.authToken, 0: none
    header,         \* the token in the header of the request
    valid,          \* server -> the token it takes
    accepted,       \* the pairs of server and key the operator accepted
    given,          \* the token in the last answer
    faults

keyVars == <<staticKey, keyDisk, keyMem, forceBootstrap, lastKey>>
tokenVars == <<stored, authToken, header>>
serverVars == <<valid, accepted, given>>
authVars == <<pc, op, server, again, unauthorized, signedWith, faults,
              keyVars, tokenVars, serverVars>>

None == 0
Servers == 1 .. NServers

AuthInit ==
    /\ pc = "off" /\ op = "authorize" /\ server = 1 /\ again = FALSE /\ unauthorized = FALSE
    /\ staticKey \in BOOLEAN
    /\ keyDisk = IF staticKey THEN 1 ELSE None
    /\ lastKey = keyDisk
    /\ keyMem = None /\ forceBootstrap = FALSE /\ signedWith = None
    /\ stored = None /\ authToken = None /\ header = None
    /\ valid = [s \in Servers |-> None] /\ accepted = {}
    /\ given = None /\ faults = 0

\* A step that goes well, or one fault more.
Ok == UNCHANGED faults
Fault == faults < MaxFaults /\ faults' = faults + 1

------------------------------------------------------------------------------
(* The process starts, and may end at any time.                            *)

\* NewAuthManager loads the key and NewMender the token; to find neither is
\* no error.
StartDaemon ==
    /\ pc \in {"off", "down"}
    /\ \/ Ok /\ forceBootstrap' = FALSE /\ keyMem' = keyDisk /\ authToken' = stored
       \/ Fault /\ forceBootstrap' = TRUE /\ keyMem' = keyDisk /\ authToken' = stored
       \/ Fault /\ forceBootstrap' = FALSE /\ keyMem' = None /\ authToken' = stored
       \/ Fault /\ forceBootstrap' = FALSE /\ keyMem' = keyDisk /\ authToken' = None
    /\ \/ pc' = "idle" /\ UNCHANGED op              \* the daemon
       \/ pc' = "bootstrap" /\ op' = "command"      \* mender bootstrap
    /\ UNCHANGED <<server, again, unauthorized, signedWith, staticKey, keyDisk, lastKey,
                   stored, header, serverVars>>

Crash ==
    /\ pc \notin {"off", "down"} /\ Fault /\ pc' = "off"
    /\ UNCHANGED <<op, server, again, unauthorized, signedWith, keyVars, tokenVars, serverVars>>

------------------------------------------------------------------------------
(* The token in the database and its copy                                  *)

\* loadAuth fills the copy if it is empty.
LoadAuth == authToken' = IF authToken = None THEN stored' ELSE authToken

\* Whether the database has a token; one that cannot be read is none.
IsAuthorized == stored # None /\ Ok
NotAuthorized == (stored = None /\ Ok) \/ Fault

\* RemoveAuthToken leaves a token that it cannot read or remove.
RemoveAuthToken == (stored' = None /\ Ok) \/ (UNCHANGED stored /\ Fault)

\* idleState; IsAuthorized calls loadAuth.
Idle ==
    /\ pc = "idle" /\ UNCHANGED stored
    /\ \/ IsAuthorized /\ LoadAuth /\ pc' = "check"
       \/ NotAuthorized /\ UNCHANGED authToken /\ pc' = "authorize"
    /\ op' = "authorize"
    /\ UNCHANGED <<server, again, unauthorized, signedWith, keyVars, header, serverVars>>

------------------------------------------------------------------------------
(* Authorize and reauthorize                                               *)

\* The command ends where the daemon goes on to another state.
GoOn(state) == pc' = IF op = "command" THEN "off" ELSE state

\* Authorize does nothing if there is a token, whoever asks.
Authorize ==
    /\ pc = "authorize" /\ UNCHANGED stored
    /\ \/ IsAuthorized /\ LoadAuth /\ GoOn("check") /\ UNCHANGED op
       \/ NotAuthorized /\ UNCHANGED authToken /\ pc' = "bootstrap"
            /\ op' = IF op = "command" THEN "command authorize" ELSE op
    /\ UNCHANGED <<server, again, unauthorized, signedWith, keyVars, header, serverVars>>

\* What follows Bootstrap, by who called it.
Bootstrapped ==
    \/ op = "command" /\ pc' = "authorize" /\ UNCHANGED <<server, authToken>>
    \/ op \in {"authorize", "command authorize"}
         /\ pc' = "ask" /\ server' = 1 /\ authToken' = None
    \/ op = "reauthorize" /\ pc' = "remove" /\ UNCHANGED <<server, authToken>>

\* A fatal error ends the command and the daemon.
Fatal == pc' = IF op = "authorize" THEN "down" ELSE "off"

\* reauthorize only reports it.
BootstrapFailed ==
    /\ IF op = "reauthorize" THEN pc' = "failover" ELSE Fatal
    /\ UNCHANGED <<server, authToken>>

\* Generate fails; or Save does, and the new key stays in memory.
GenerateKeyFails ==
    /\ Fault /\ UNCHANGED <<staticKey, keyDisk, forceBootstrap>>
    /\ \/ UNCHANGED <<keyMem, lastKey>>
       \/ lastKey' = lastKey + 1 /\ keyMem' = lastKey'
    /\ BootstrapFailed

\* GenerateKey: in memory, then in the key store.
GenerateKey ==
    /\ Ok /\ lastKey' = lastKey + 1 /\ keyMem' = lastKey' /\ keyDisk' = lastKey'
    /\ forceBootstrap' = FALSE /\ UNCHANGED staticKey
    /\ Bootstrapped

\* Mutant: a key is generated only if that is forced.
BootstrapForced ==
    /\ pc = "bootstrap"
    /\ IF ~forceBootstrap \/ staticKey
       THEN Ok /\ Bootstrapped /\ UNCHANGED keyVars
       ELSE GenerateKey \/ GenerateKeyFails
    /\ UNCHANGED <<op, again, unauthorized, signedWith, stored, header, serverVars>>

\* Bootstrap and doBootstrap: a missing key, or any if it is forced, is
\* generated and saved; a static one stays.
Bootstrap ==
    /\ pc = "bootstrap"
    /\ IF ~forceBootstrap /\ keyMem # None
       THEN Ok /\ Bootstrapped /\ UNCHANGED keyVars
       ELSE IF staticKey
       THEN /\ Ok /\ Bootstrapped /\ forceBootstrap' = FALSE
            /\ UNCHANGED <<staticKey, keyDisk, keyMem, lastKey>>
       ELSE GenerateKey \/ GenerateKeyFails
    /\ UNCHANGED <<op, again, unauthorized, signedWith, stored, header, serverVars>>

\* Mutant: the copy in memory is kept.
RemoveStale ==
    /\ pc = "remove" /\ pc' = "ask" /\ RemoveAuthToken
    /\ UNCHANGED authToken
    /\ UNCHANGED <<op, server, again, unauthorized, signedWith, keyVars, header, serverVars>>

\* reauthorize takes the token for invalid, removes it and drops the copy.
Remove ==
    /\ pc = "remove"
    /\ \/ pc' = "ask" /\ RemoveAuthToken /\ authToken' = None
       \/ pc' = "failover" /\ Fault /\ UNCHANGED <<stored, authToken>>
    /\ UNCHANGED <<op, server, again, unauthorized, signedWith, keyVars, header, serverVars>>

\* No server gave a token: authorizeWaitState, or the next server for the
\* request that needed it.
NoToken ==
    IF op = "reauthorize" THEN pc' = "failover" /\ UNCHANGED server
    ELSE IF server < NServers THEN server' = server + 1 /\ UNCHANGED pc
    ELSE pc' = (IF op = "command authorize" THEN "off" ELSE "authorize") /\ UNCHANGED server

\* A token that nobody has any more.
Tokens == 1 .. NServers + 4
NewToken ==
    CHOOSE t \in Tokens : t \notin {stored, authToken, header} \union {valid[s] : s \in Servers}

\* AuthClient.Request: the key is accepted; or not, and after the last
\* refusal the token is removed; or there is no answer, or no key to sign with.
Ask ==
    /\ pc = "ask" /\ signedWith' = keyMem
    /\ \/ /\ <<server, keyMem>> \in accepted /\ Ok
          /\ given' = NewToken /\ valid' = [valid EXCEPT ![server] = given']
          /\ pc' = "store" /\ UNCHANGED <<server, stored, accepted>>
       \/ /\ keyMem # None /\ <<server, keyMem>> \notin accepted
          /\ IF op = "reauthorize" \/ server = NServers THEN RemoveAuthToken
             ELSE Ok /\ UNCHANGED stored
          /\ NoToken /\ UNCHANGED serverVars
       \/ /\ (keyMem = None /\ Ok) \/ Fault
          /\ NoToken /\ UNCHANGED <<stored, serverVars>>
    /\ UNCHANGED <<op, again, unauthorized, keyVars, authToken, header>>

\* RecvAuthResponse and loadAuth.  reauthorize returns what the database
\* has, and the request is sent again.
StoreToken ==
    /\ pc = "store"
    /\ \/ /\ Ok /\ stored' = given /\ LoadAuth
          /\ IF op = "reauthorize" THEN pc' = "send" /\ header' = stored' /\ again' = TRUE
             ELSE pc' = (IF op = "authorize" THEN "check" ELSE "off")
                    /\ UNCHANGED <<header, again>>
       \/ /\ Fault /\ UNCHANGED <<stored, authToken, header, again>>        \* not written
          /\ pc' = CASE op = "reauthorize" -> "failover"
                     [] op = "authorize" -> "authorize"
                     [] OTHER -> "off"
       \/ /\ Fault /\ stored' = given /\ UNCHANGED <<authToken, header, again>>
          /\ IF op = "reauthorize" THEN pc' = "failover" ELSE Fatal         \* not read
    /\ UNCHANGED <<op, server, unauthorized, signedWith, keyVars, serverVars>>

------------------------------------------------------------------------------
(* A request with the token: CheckUpdate, ReportUpdateStatus               *)

\* ApiClient.Request takes the copy of the token.
Check ==
    /\ pc = "check" /\ pc' = "send" /\ Ok
    /\ header' = authToken /\ server' = 1 /\ again' = FALSE /\ unauthorized' = FALSE
    /\ UNCHANGED <<op, signedWith, keyVars, stored, authToken, serverVars>>

\* tryDo: a token the server does not take is renewed, once.
Send ==
    /\ pc = "send"
    /\ \/ /\ header = valid[server] /\ header # None /\ Ok
          /\ pc' = "served" /\ unauthorized' = FALSE /\ UNCHANGED op
       \/ /\ header # valid[server] \/ header = None
          /\ Ok /\ unauthorized' = TRUE
          /\ IF again THEN pc' = "failover" /\ UNCHANGED op
             ELSE pc' = "bootstrap" /\ op' = "reauthorize"
       \/ Fault /\ pc' = "failover" /\ unauthorized' = FALSE /\ UNCHANGED op
    /\ UNCHANGED <<server, again, signedWith, keyVars, tokenVars, serverVars>>

\* Do: the next server; after the last the caller removes a token that was
\* not taken, and the daemon goes to errorState and on to idleState.
Failover ==
    /\ pc = "failover" /\ again' = FALSE
    /\ \/ /\ server < NServers /\ server' = server + 1 /\ pc' = "send" /\ Ok
          /\ UNCHANGED stored
       \/ /\ server = NServers /\ pc' = "idle" /\ UNCHANGED server
          /\ IF unauthorized THEN RemoveAuthToken ELSE Ok /\ UNCHANGED stored
    /\ UNCHANGED <<op, unauthorized, signedWith, keyVars, authToken, header, serverVars>>

\* checkWaitState, and the next request.
Served ==
    /\ pc = "served" /\ pc' = "check" /\ Ok
    /\ UNCHANGED <<op, server, again, unauthorized, signedWith, keyVars, tokenVars, serverVars>>

------------------------------------------------------------------------------
(* The servers and the operator                                            *)

Expire ==
    /\ Fault
    /\ \E s \in Servers : valid[s] # None /\ valid' = [valid EXCEPT ![s] = None]
    /\ UNCHANGED <<pc, op, server, again, unauthorized, signedWith, keyVars, tokenVars,
                   accepted, given>>

\* The operator accepts a key that has asked.
Accept(s) ==
    /\ keyMem # None /\ keyMem = signedWith /\ <<s, keyMem>> \notin accepted
    /\ accepted' = accepted \union {<<s, keyMem>>} /\ Ok
    /\ UNCHANGED <<pc, op, server, again, unauthorized, signedWith, keyVars, tokenVars,
                   valid, given>>

Reject ==
    /\ Fault /\ accepted # {}
    /\ \E a \in accepted : accepted' = accepted \ {a}
    /\ UNCHANGED <<pc, op, server, again, unauthorized, signedWith, keyVars, tokenVars,
                   valid, given>>

AuthStep ==
    \/ Idle \/ Authorize \/ Bootstrap \/ Remove \/ Ask \/ StoreToken
    \/ Check \/ Send \/ Failover \/ Served

AuthNext == StartDaemon \/ Crash \/ AuthStep \/ Expire \/ Reject \/ \E s \in Servers : Accept(s)

\* The process goes on, a daemon that crashed is started again, however often
\* the command is run in between, and the operator accepts the device on
\* every server.  Nobody has to start a daemon that gave up: the service has
\* Restart=on-abort.
AuthSpec ==
    /\ AuthInit /\ [][AuthNext]_authVars
    /\ WF_authVars(AuthStep)
    /\ SF_authVars(pc = "off" /\ StartDaemon /\ pc' = "idle")
    /\ \A s \in Servers : WF_authVars(Accept(s))

------------------------------------------------------------------------------
(* What has to hold.                                                       *)

\* The copy of the token in memory never differs from the token in the
\* database as long as there is one: loadAuth does not replace a copy, so
\* every path that stores a token has to have emptied it.
CopyIsStored ==
    pc \notin {"off", "down"} /\ stored # None /\ authToken # None => authToken = stored

\* After finitely many faults the daemon is served again and again: from
\* whatever tokens and keys they left behind, on disk and in memory, it
\* finds its way back to a token that a server takes.  There are two
\* exceptions: a daemon that ended with a fatal error (a key that cannot be
\* generated or saved, a token that cannot be read back) stays down unless
\* somebody starts it, and a static key that could not be read when the
\* daemon started is not tried again.
ServedAgain ==
    []<>(pc = "served" \/ pc = "down" \/ (staticKey /\ keyMem = None /\ pc # "off"))
==============================================================================
