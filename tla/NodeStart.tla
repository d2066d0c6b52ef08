------------------------------ MODULE NodeStart ------------------------------
(***************************************************************************)
(* How the daemons of one host get their addresses: main, the constructor   *)
(* of Node, class TorManager and Socks5Client::reserve_available_port, the  *)
(* set-up of SamClient and Reticulum::create_identity, up to the listening  *)
(* socket.  What outlives a daemon is shared: torrc, the hostnames that Tor *)
(* has written, the key files, the Tor process, and for a while the port.   *)
(*                                                                          *)
(* Ports are counted from TOR_HIDDEN_SERVICE_PORT, and addresses by their   *)
(* hidden service: Tor forwards address i to port i of this host.           *)
(***************************************************************************)
EXTENDS Integers, FiniteSets

CONSTANTS
    Daemons,      \* the daemons somebody may start on the host
    SocksPorts,   \* the values of --socks-port
    LastPort,     \* reserve_available_port tries the ports 0..LastPort
    MaxStarts,    \* bound on the starts
    Ipc,          \* NEROSHOP_IPC_DEFAULT_PORT
    Half,         \* what a key file holds while it is written
    Nil

Ports == 0..LastPort
Keys == 1..MaxStarts            \* private keys, in the order they are drawn
Networks == {"tor", "i2p", "reticulum"}

ASSUME StartAssumption ==
    /\ LastPort \in Nat
    /\ MaxStarts \in Nat
    /\ Nil \notin Daemons \cup SocksPorts \cup Nat \cup {Half, Ipc}
    /\ Half \notin Nat
    /\ Ipc \notin Nat

VARIABLES
    overlay,    \* --network, the same for all of the host
    host,       \* a debug build?, and the addresses here that are seeds
    at,         \* how far each daemon has come
    self,       \* its TorManager and Node: SocksPort, address, port, key
    external,   \* TorManager::external_tor
    torrc,      \* the SocksPort in torrc, or Nil without the file
    hostnames,  \* Tor has written the hostname files of both services
    tor,        \* the Tor process: its SocksPort and the daemon that owns it
    born,       \* the daemons whose Tor has been started and is not up yet
    keyfile,    \* i2p.key or reticulum_identity.key: a key, Half, or Nil
    drawn,      \* how many keys have been generated
    lingers,    \* the ports whose last connections are in TIME_WAIT
    starts,     \* how many daemons have been started
    past        \* ghost: what has happened that a start may suffer from

meVars == <<at, self, external>>
torVars == <<torrc, hostnames, tor, born>>
keyVars == <<keyfile, drawn>>
startVars == <<overlay, host, meVars, torVars, keyVars, lingers, starts, past>>

Nothing == [socks |-> Nil, addr |-> Nil, port |-> Nil, key |-> Nil]
NoTor == [socks |-> Nil, of |-> Nil]

StartInit ==
    /\ overlay \in Networks
    /\ host \in [debug : BOOLEAN, seeds : {{}, {0}}]
    /\ at = [d \in Daemons |-> "off"]
    /\ self = [d \in Daemons |-> Nothing]
    /\ external = [d \in Daemons |-> FALSE]
    /\ torrc = Nil
    /\ hostnames = FALSE
    /\ tor = NoTor
    /\ born = {}
    /\ keyfile = Nil
    /\ drawn = 0
    /\ lingers = {}
    /\ starts = 0
    /\ past = {}

----------------------------------------------------------------------------
Go(d, to) == at' = [at EXCEPT ![d] = to]

Serves(d) == at[d] = "serving"
Starting(d) == at[d] \notin {"off", "serving"}

\* Node::is_hardcoded compares address and port; a seed has no IPC server.
IsHardcoded(d) == overlay = "tor" /\ self[d].addr \in host.seeds /\ self[d].port = 0

\* A listening socket, or what is left of its connections, keeps the port.
Listens(p) == \E e \in Daemons : Serves(e) /\ self[e].port = p
Busy(p) == p \in lingers \/ Listens(p)

\* Only a debug build allows the IPC port to be shared, or taken again at once.
IpcTaken ==
    /\ ~host.debug
    /\ Ipc \in lingers \/ \E e \in Daemons : Serves(e) /\ ~IsHardcoded(e)

\* Not what a daemon that is started with SocksPort s should find.
Unsettled(s) ==
    \/ \E e \in Daemons : Starting(e)
    \/ born # {}
    \/ lingers # {}
    \/ tor.socks \notin {s, Nil}

\* The process is gone.
Vanish(d) ==
    /\ Go(d, "off")
    /\ self' = [self EXCEPT ![d] = Nothing]
    /\ external' = [external EXCEPT ![d] = FALSE]

\* An exception nobody catches: no destructor runs, and the Tor process, if it
\* had come up, or comes up, stays; a key file may stay half written.
Die(d, mark) ==
    /\ Vanish(d)
    /\ tor' = IF tor.of = d THEN [tor EXCEPT !.of = Nil] ELSE tor
    /\ born' = born \ {d}
    /\ past' = past \cup mark \cup
                  (IF tor.of = d \/ d \in born \/ at[d] = "write" THEN {"left"} ELSE {})

----------------------------------------------------------------------------
(* main and the constructor of TorManager.                                  *)

\* A torrc with another SocksPort is deleted, whoever runs with it.
Launch(d) ==
    /\ at[d] = "off"
    /\ starts < MaxStarts
    /\ starts' = starts + 1
    /\ \E s \in SocksPorts :
          /\ self' = [self EXCEPT ![d].socks = s]
          /\ torrc' = IF torrc = s THEN s ELSE Nil
          /\ past' = IF Unsettled(s) THEN past \cup {"raced"} ELSE past
    /\ Go(d, CASE overlay = "tor" -> "check" [] OTHER -> "load")
    /\ UNCHANGED <<overlay, host, external, hostnames, tor, born, keyVars, lingers>>

(* TorManager::start_tor.                                                    *)

\* Variant: the first hidden service, whoever has started Tor.
CheckFirstService(d) ==
    /\ at[d] = "check"
    /\ IF tor.socks = self[d].socks
       THEN /\ external' = [external EXCEPT ![d] = TRUE]
            /\ self' = [self EXCEPT ![d].addr = IF hostnames THEN 0 ELSE Nil]
            /\ Go(d, "reserve")
       ELSE Go(d, "torrc") /\ UNCHANGED <<self, external>>
    /\ UNCHANGED <<overlay, host, torVars, keyVars, lingers, starts, past>>

\* A connection to the SocksPort tells whether Tor runs: if so this daemon takes
\* the second hidden service, the address of which it reads once.
Check(d) ==
    /\ at[d] = "check"
    /\ IF tor.socks = self[d].socks
       THEN /\ external' = [external EXCEPT ![d] = TRUE]
            /\ self' = [self EXCEPT ![d].addr = IF hostnames THEN 1 ELSE Nil]
            /\ Go(d, "reserve")
       ELSE Go(d, "torrc") /\ UNCHANGED <<self, external>>
    /\ UNCHANGED <<overlay, host, torVars, keyVars, lingers, starts, past>>

\* A torrc that exists is kept.
CreateTorrc(d) ==
    /\ at[d] = "torrc"
    /\ torrc' = IF torrc = Nil THEN self[d].socks ELSE torrc
    /\ Go(d, "spawn")
    /\ UNCHANGED <<overlay, host, self, external, hostnames, tor, born, keyVars, lingers, starts, past>>

Spawn(d) ==
    /\ at[d] = "spawn"
    /\ born' = born \cup {d}
    /\ Go(d, "hostname")
    /\ UNCHANGED <<overlay, host, self, external, torrc, hostnames, tor, keyVars, lingers, starts, past>>

\* Variant: the file is not read before the new Tor is up.
ReadHostnameWhenUp(d) ==
    /\ at[d] = "hostname"
    /\ hostnames
    /\ tor.of = d
    /\ self' = [self EXCEPT ![d].addr = 0]
    /\ Go(d, "reserve")
    /\ UNCHANGED <<overlay, host, external, torVars, keyVars, lingers, starts, past>>

\* The hostname file may be that of an earlier Tor.
ReadHostname(d) ==
    /\ at[d] = "hostname"
    /\ hostnames
    /\ self' = [self EXCEPT ![d].addr = 0]
    /\ Go(d, "reserve")
    /\ UNCHANGED <<overlay, host, external, torVars, keyVars, lingers, starts, past>>

\* After a minute without the file start_tor throws.
HostnameTimeout(d) ==
    /\ at[d] = "hostname"
    /\ ~hostnames
    /\ Die(d, {})
    /\ UNCHANGED <<overlay, host, torrc, hostnames, keyVars, lingers, starts>>

\* main has waited for Tor, for 15 s at most; the port is tried and closed again.
ReservePort(d) ==
    /\ at[d] = "reserve"
    /\ LET Found == {p \in Ports : ~Busy(p) /\ \A q \in Ports : q < p => Busy(q)}
       IN self' = [self EXCEPT ![d].port = IF Found = {} THEN Nil ELSE CHOOSE p \in Found : TRUE]
    /\ Go(d, "bind")
    /\ UNCHANGED <<overlay, host, external, torVars, keyVars, lingers, starts, past>>

\* The threads of main: run_tor throws if another daemon has been faster (without
\* a port the system chooses one), ipc_server if it does not get its own.
Bind(d) ==
    /\ at[d] = "bind"
    /\ IF \/ self[d].port # Nil /\ Listens(self[d].port)
          \/ ~IsHardcoded(d) /\ IpcTaken
       THEN Die(d, {})
       ELSE Go(d, "serving") /\ UNCHANGED <<self, external, tor, born, past>>
    /\ UNCHANGED <<overlay, host, torrc, hostnames, keyVars, lingers, starts>>

----------------------------------------------------------------------------
(* The Tor process, external: one that starts reads torrc, and gives up if     *)
(* another one holds its data directory.                                     *)

TorUp(d) ==
    /\ d \in born
    /\ born' = born \ {d}
    /\ tor' = IF torrc # Nil /\ tor = NoTor THEN [socks |-> torrc, of |-> d] ELSE tor
    /\ UNCHANGED <<overlay, host, meVars, torrc, hostnames, keyVars, lingers, starts, past>>

TorWrites ==
    /\ tor # NoTor
    /\ ~hostnames
    /\ hostnames' = TRUE
    /\ UNCHANGED <<overlay, host, meVars, torrc, tor, born, keyVars, lingers, starts, past>>

\* Somebody ends a Tor process that no daemon owns.
TorKilled ==
    /\ tor # NoTor
    /\ tor.of = Nil
    /\ tor' = NoTor
    /\ UNCHANGED <<overlay, host, meVars, torrc, hostnames, born, keyVars, lingers, starts, past>>

----------------------------------------------------------------------------
(* SamClient::session_prepare, session_create; Reticulum::create_identity.    *)

\* Variant: a new key at every start.
LoadKeyAnew(d) ==
    /\ at[d] = "load"
    /\ drawn' = drawn + 1
    /\ self' = [self EXCEPT ![d].key = drawn + 1]
    /\ Go(d, IF overlay = "i2p" THEN "exists" ELSE "open")
    /\ UNCHANGED <<overlay, host, external, torVars, keyfile, lingers, starts, past>>

\* An empty file counts as none for SAM; Reticulum takes what it holds.
LoadKey(d) ==
    /\ at[d] = "load"
    /\ IF keyfile = Nil \/ (overlay = "i2p" /\ keyfile = Half)
       THEN /\ drawn' = drawn + 1
            /\ self' = [self EXCEPT ![d].key = drawn + 1]
            /\ Go(d, IF overlay = "i2p" THEN "exists" ELSE "open")
       ELSE /\ self' = [self EXCEPT ![d].key = keyfile]
            /\ Go(d, "create")
            /\ UNCHANGED drawn
    /\ UNCHANGED <<overlay, host, external, torVars, keyfile, lingers, starts, past>>

\* save_key refuses to overwrite: session_prepare throws.
SaveKey(d) ==
    /\ at[d] = "exists"
    /\ IF keyfile # Nil
       THEN Die(d, {})
       ELSE Go(d, "open") /\ UNCHANGED <<self, external, tor, born, past>>
    /\ UNCHANGED <<overlay, host, torrc, hostnames, keyVars, lingers, starts>>

\* Opening the file for writing empties it.
OpenKeyFile(d) ==
    /\ at[d] = "open"
    /\ keyfile' = Half
    /\ Go(d, "write")
    /\ UNCHANGED <<overlay, host, self, external, torVars, drawn, lingers, starts, past>>

WriteKey(d) ==
    /\ at[d] = "write"
    /\ keyfile' = self[d].key
    /\ Go(d, "create")
    /\ UNCHANGED <<overlay, host, self, external, torVars, drawn, lingers, starts, past>>

\* The bridge refuses a second session with the same key, and the daemon exits;
\* Reticulum either fails to load half a key or goes on with it.
CreateSession(d) ==
    /\ at[d] = "create"
    /\ LET InUse == overlay = "i2p" /\ \E e \in Daemons : Serves(e) /\ self[e].key = self[d].key
       IN  \/ ~InUse /\ Go(d, "bind") /\ UNCHANGED <<self, external, tor, born, past>>
           \/ InUse /\ Vanish(d) /\ UNCHANGED <<tor, born, past>>
           \/ overlay = "reticulum" /\ self[d].key = Half /\ Die(d, {})
    /\ UNCHANGED <<overlay, host, torrc, hostnames, keyVars, lingers, starts>>

----------------------------------------------------------------------------
\* What is left of the connections to the ports of a daemon that ends.
Linger(d) ==
    \E S \in SUBSET (IF Serves(d)
                     THEN ({self[d].port} \ {Nil}) \cup (IF IsHardcoded(d) THEN {} ELSE {Ipc})
                     ELSE {}) :
        lingers' = lingers \cup S

\* The end of main: ~TorManager ends the Tor process if it is this daemon's own.
Exit(d) ==
    /\ Serves(d)
    /\ Vanish(d)
    /\ tor' = IF tor.of = d THEN NoTor ELSE tor
    /\ born' = born \ {d}
    /\ Linger(d)
    /\ past' = IF \E e \in Daemons : Starting(e) THEN past \cup {"raced"} ELSE past
    /\ UNCHANGED <<overlay, host, torrc, hostnames, keyVars, starts>>

\* The process is killed; the Tor it has just started may still come up.
Crash(d) ==
    /\ at[d] # "off"
    /\ \/ Die(d, {"killed"})
       \/ /\ d \in born
          /\ torrc # Nil
          /\ tor = NoTor
          /\ Vanish(d)
          /\ tor' = [socks |-> torrc, of |-> Nil]
          /\ born' = born \ {d}
          /\ past' = past \cup {"killed", "left"}
    /\ Linger(d)
    /\ UNCHANGED <<overlay, host, torrc, hostnames, keyVars, starts>>

Expire(p) ==
    /\ p \in lingers
    /\ lingers' = lingers \ {p}
    /\ UNCHANGED <<overlay, host, meVars, torVars, keyVars, starts, past>>

----------------------------------------------------------------------------
StartStep(d) ==
    \/ Check(d) \/ CreateTorrc(d) \/ Spawn(d) \/ ReadHostname(d) \/ HostnameTimeout(d)
    \/ ReservePort(d) \/ Bind(d)
    \/ LoadKey(d) \/ SaveKey(d) \/ OpenKeyFile(d) \/ WriteKey(d) \/ CreateSession(d)

StartNext ==
    \/ \E d \in Daemons : Launch(d) \/ StartStep(d) \/ TorUp(d) \/ Exit(d) \/ Crash(d)
    \/ TorWrites \/ TorKilled
    \/ \E p \in Ports \cup {Ipc} : Expire(p)

StartFairness == \A d \in Daemons : WF_startVars(StartStep(d))

StartSpec == StartInit /\ [][StartNext]_startVars /\ StartFairness

----------------------------------------------------------------------------
(* Properties.                                                              *)

Points == {"off", "check", "torrc", "spawn", "hostname", "reserve", "bind",
           "load", "exists", "open", "write", "create", "serving"}

\* The shape of the state (main's locals, TorManager, SamClient and the files).
StartTypeOK ==
    /\ overlay \in Networks
    /\ host \in [debug : BOOLEAN, seeds : {{}, {0}}]
    /\ at \in [Daemons -> Points]
    /\ self \in [Daemons -> [socks : SocksPorts \cup {Nil}, addr : {0, 1, Nil},
                             port : Ports \cup {Nil}, key : Keys \cup {Half, Nil}]]
    /\ external \in [Daemons -> BOOLEAN]
    /\ torrc \in SocksPorts \cup {Nil}
    /\ hostnames \in BOOLEAN
    /\ tor \in [socks : SocksPorts \cup {Nil}, of : Daemons \cup {Nil}]
    /\ born \subseteq Daemons
    /\ keyfile \in Keys \cup {Half, Nil}
    /\ drawn \in 0..MaxStarts
    /\ lingers \subseteq Ports \cup {Ipc}
    /\ starts \in 0..MaxStarts
    /\ past \subseteq {"raced", "killed", "left"}

\* Two daemons on one host, each started when the other one has settled and with
\* the SocksPort that Tor has, are reached at their addresses: the second one
\* takes both the second hidden service and the port that service forwards to,
\* whichever of the two ends, is killed without leaving Tor, and starts again
\* (start_tor and reserve_available_port decide independently of each other).
ReachedAtAddress ==
    overlay = "tor" /\ past \subseteq {"killed"} =>
        \A d \in Daemons : Serves(d) => self[d].addr # Nil /\ self[d].addr = self[d].port

\* A daemon serves under the identity in the key file, so that it has the same
\* address when it starts again, unless two daemons have generated one at the
\* same time; whoever is killed while the file is written makes no difference
\* to those that serve (save_key, load_key and create_identity).
IdentityKept ==
    overlay # "tor" /\ "raced" \notin past =>
        \A d \in Daemons : Serves(d) => self[d].key = keyfile

\* Another node that has a daemon's address reaches this daemon, under each network
\* (the start of the daemon).
SameAddress == ReachedAtAddress /\ IdentityKept

\* A daemon that starts serves in the end, unless it is killed, or something was
\* left behind, or it did not start alone, or the IPC port or the I2P identity is
\* in use: no file or process that an orderly end leaves prevents the next start.
StartServes ==
    \A d \in Daemons : Starting(d) ~>
        \/ Serves(d)
        \/ past # {}
        \/ \E e \in Daemons : Serves(e) /\ ~IsHardcoded(e) /\ (~host.debug \/ overlay = "i2p")
=============================================================================
