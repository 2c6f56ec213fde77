------------------------------- MODULE PeerFleet -------------------------------
(***************************************************************************)
(* The WireGuard fleet: sites, their peers and gateways (api/v1/peers.py,  *)
(* api/v1/sites.py), the allocation of tunnel addresses in the hub subnet  *)
(* (services/wireguard.py), and the periodic staleness sweep               *)
(* (tasks/jobs.py), which runs in the Celery worker.                       *)
(*                                                                         *)
(* No code writes peers.last_handshake, so that the sweep finds it NULL,   *)
(* its status is always `unknown' and no site changes its status.          *)
(***************************************************************************)
EXTENDS Naturals, FiniteSets, FiniteSetsExt

CONSTANTS
    Req,      \* the API requests that may be in flight at once
    Worker,   \* the Celery worker, which runs one sweep at a time
    Site,     \* identities of sites
    Peer,     \* identities of peers
    NoPeer,   \* a site without gateway
    NoSite,   \* a peer without site
    Hosts,    \* number of host addresses in the hub subnet
    Ops,      \* the operations this instance exercises
    Columns,  \* the columns a PATCH may set in this instance
    Given     \* the addresses an operator may choose in this instance; 0: none

AllOps     == {"site", "patchSite", "deleteSite", "provision", "create",
               "update", "disable", "delete", "sweep"}
AllColumns == {"site", "ip", "enabled"}

ASSUME OpsAssumption   == Ops \subseteq AllOps /\ Columns \subseteq AllColumns
ASSUME HostsAssumption == Hosts \in Nat \ {0}
ASSUME GivenAssumption == Given \subseteq 0 .. Hosts
ASSUME NamesAssumption == /\ NoPeer \notin Peer /\ NoSite \notin Site
                          /\ Worker \notin Req

VARIABLES
    gateway,  \* the committed sites with their gateway_peer_id
    peers,    \* the committed peers
    task      \* the transactions of the requests and of the worker

vars == <<gateway, peers, task>>

Hub     == 1                     \* the first host address
NoIp    == 0                     \* assigned_tunnel_ip is NULL
Address == NoIp .. Hosts
Status  == {"unknown", "disabled"}
Place   == Site \cup {NoSite}
Row     == [site : Place, ip : Address, enabled : BOOLEAN, status : Status]
Edit    == [site : SUBSET Place, ip : SUBSET Address, enabled : SUBSET BOOLEAN,
            status : SUBSET Status]
Actor   == Req \cup {Worker}
Live    == DOMAIN gateway

(* site, peer, ip: the target; new: the value of each column to be written *)
(* ({}: none); dirty: the rows a sweep has read and is going to write, or  *)
(* a deletion of their site to delete; solo (history): no other request    *)
(* was in flight since this one began.                                     *)
Task == [pc : {"idle", "load", "select", "commit"}, op : AllOps,
         site : SUBSET Place, peer : SUBSET Peer, ip : Address, new : Edit,
         dirty : SUBSET Peer, solo : BOOLEAN]

NoEdit  == [site |-> {}, ip |-> {}, enabled |-> {}, status |-> {}]
Nothing == [c \in {} |-> c]
Idle == [pc |-> "idle", op |-> "sweep", site |-> {}, peer |-> {},
         ip |-> NoIp, new |-> NoEdit, dirty |-> {}, solo |-> FALSE]

Init == /\ gateway = Nothing
        /\ peers = Nothing
        /\ task = [a \in Actor |-> Idle]

Put(f, k, v)  == [x \in DOMAIN f \cup {k} |-> IF x = k THEN v ELSE f[x]]
Without(f, K) == [x \in DOMAIN f \ K |-> f[x]]

Finish(a) == task' = [task EXCEPT ![a] = Idle]

Fresh(p) == p \notin DOMAIN peers /\ \A a \in Actor : p \notin task[a].peer \cup task[a].dirty

InFlight == {b \in Req : task[b].pc # "idle"}

Begin(a, r) ==
    /\ task[a].pc = "idle"
    /\ r.op \in Ops
    /\ task' = [b \in Actor |->
                   IF b = a THEN [r EXCEPT !.solo = a \in Req /\ InFlight = {}]
                   ELSE IF a \in Req THEN [task[b] EXCEPT !.solo = FALSE]
                   ELSE task[b]]
    /\ UNCHANGED <<gateway, peers>>

-----------------------------------------------------------------------------
(* Arrivals.                                                               *)

BeginSite(a) ==
    \E op \in {"provision", "patchSite", "deleteSite"}, s \in Site :
        Begin(a, [Idle EXCEPT !.op = op, !.pc = "load", !.site = {s}])

BeginPeer(a) ==
    \E op \in {"update", "disable", "delete"}, p \in Peer :
        Begin(a, [Idle EXCEPT !.op = op, !.pc = "load", !.peer = {p}])

\* POST /peers: the operator chooses the address, and the site or none.
BeginCreate(a) ==
    \E s \in Place, i \in Given :
        Begin(a, [Idle EXCEPT !.op = "create", !.pc = "commit",
                              !.site = {s}, !.ip = i])

\* sweep_peer_staleness, every five minutes.
BeginSweep == Begin(Worker, [Idle EXCEPT !.op = "sweep", !.pc = "select"])

-----------------------------------------------------------------------------
(* Sites.                                                                  *)

\* POST /sites, after its check for the slug; a site without gateway.
CreateSite ==
    /\ "site" \in Ops
    /\ \E s \in Site \ Live :
         /\ \A a \in Actor : s \notin task[a].site
         /\ gateway' = Put(gateway, s, NoPeer)
    /\ UNCHANGED <<peers, task>>

PeersAt(S) == {p \in DOMAIN peers : peers[p].site \in S}

\* get_or_404 of the site; the handler of PATCH assigns gateway_peer_id, to
\* anything (a value that is there already is not written); session.delete
\* loads the peers.
LoadSite(a) ==
    /\ task[a].pc = "load"
    /\ task[a].op \in {"provision", "patchSite", "deleteSite"}
    /\ \E s \in task[a].site :
         \/ /\ s \notin Live
            /\ Finish(a)                                   \* 404
         \/ /\ s \in Live
            /\ task[a].op = "provision"
            /\ task' = [task EXCEPT ![a].pc = "select"]
         \/ /\ s \in Live
            /\ task[a].op = "patchSite"
            /\ \E g \in (Peer \cup {NoPeer}) \ {gateway[s]} :
                 task' = [task EXCEPT ![a].pc = "commit",
                                      ![a].peer = {g} \ {NoPeer}]
         \/ /\ s \in Live
            /\ task[a].op = "deleteSite"
            /\ task' = [task EXCEPT ![a].pc = "commit",
                                    ![a].dirty = PeersAt(task[a].site)]
    /\ UNCHANGED <<gateway, peers>>

\* The peers of the site go with it: by the ORM cascade those it has loaded,
\* wherever they are by now, and by ON DELETE CASCADE those there are.
CommitDeleteSite(a) ==
    /\ task[a].pc = "commit"
    /\ task[a].op = "deleteSite"
    /\ gateway' = Without(gateway, task[a].site)
    /\ peers' = Without(peers, task[a].dirty \cup PeersAt(task[a].site))
    /\ Finish(a)

\* The value to be written, or the one there is.
Value(new, old) == IF new = {} THEN old ELSE CHOOSE x \in new : TRUE

\* UPDATE of the site, which fails if it has gone.
CommitPatchSite(a) ==
    /\ task[a].pc = "commit"
    /\ task[a].op = "patchSite"
    /\ gateway' = [s \in Live |-> IF s \in task[a].site
                                  THEN Value(task[a].peer, NoPeer)
                                  ELSE gateway[s]]
    /\ Finish(a)
    /\ UNCHANGED peers

-----------------------------------------------------------------------------
(* Peers.                                                                  *)

\* Mutant: the addresses of disabled peers are thought free.
UsedEnabled == {peers[p].ip : p \in {q \in DOMAIN peers : peers[q].enabled}}

Used == {peers[p].ip : p \in DOMAIN peers} \ {NoIp}

\* Mutant: the broadcast address is taken for a host.
FreeBeyond == (1 .. Hosts + 1) \ (Used \cup {Hub})

\* allocate_tunnel_ip: the hosts of the subnet without the hub and the used.
Free == (1 .. Hosts) \ (Used \cup {Hub})

\* provision_gateway: SELECT the addresses, take the lowest free one.
SelectIp(a) ==
    /\ task[a].pc = "select"
    /\ task[a].op = "provision"
    /\ IF Free = {}
       THEN Finish(a)                                      \* ValueError, 500
       ELSE task' = [task EXCEPT ![a].pc = "commit", ![a].ip = Min(Free)]
    /\ UNCHANGED <<gateway, peers>>

\* Mutant: the database does not enforce the foreign key of peers.site_id.
SiteExistsAlways(s) == TRUE

\* The foreign key of peers.site_id, which may be NULL.
SiteExists(s) == s \in Live \cup {NoSite}

\* INSERT of the peer; a provision binds it to its site, whose row must
\* still be there to be updated.
CommitNewPeer(a) ==
    /\ task[a].pc = "commit"
    /\ task[a].op \in {"provision", "create"}
    /\ \E s \in task[a].site, p \in Peer :
         /\ Fresh(p)
         /\ IF ~SiteExists(s)
            THEN UNCHANGED <<gateway, peers>>              \* IntegrityError
            ELSE /\ peers' = Put(peers, p,
                       [site |-> s, ip |-> task[a].ip, enabled |-> TRUE,
                        status |-> "unknown"])
                 /\ gateway' = IF task[a].op = "create" THEN gateway
                               ELSE [gateway EXCEPT ![s] = p]
    /\ Finish(a)

\* What a PATCH may set, one column at a time.
Patches == {[NoEdit EXCEPT !.site = {x}] : x \in Place}
           \cup {[NoEdit EXCEPT !.ip = {x}] : x \in Given}
           \cup {[NoEdit EXCEPT !.enabled = {x}] : x \in BOOLEAN}

Disabling == [NoEdit EXCEPT !.enabled = {FALSE}, !.status = {"disabled"}]

\* Of what is asked for, the columns that differ from the row as loaded.
Changed(asked, row) ==
    [site |-> asked.site \ {row.site}, ip |-> asked.ip \ {row.ip},
     enabled |-> asked.enabled \ {row.enabled},
     status |-> asked.status \ {row.status}]

\* The row with the columns that are to be written.
Written(new, row) ==
    [site |-> Value(new.site, row.site), ip |-> Value(new.ip, row.ip),
     enabled |-> Value(new.enabled, row.enabled),
     status |-> Value(new.status, row.status)]

\* get_or_404 of the peer; the handler assigns its columns.
LoadPeer(a) ==
    /\ task[a].pc = "load"
    /\ task[a].op \in {"update", "disable", "delete"}
    /\ \E p \in task[a].peer :
         \/ /\ p \notin DOMAIN peers
            /\ Finish(a)                                   \* 404
         \/ /\ p \in DOMAIN peers
            /\ task[a].op = "update"
            /\ \E asked \in Patches :
                 /\ {c \in AllColumns : asked[c] # {}} \subseteq Columns
                 /\ task' = [task EXCEPT ![a].pc = "commit",
                                         ![a].new = Changed(asked, peers[p])]
         \/ /\ p \in DOMAIN peers
            /\ task[a].op = "disable"
            /\ task' = [task EXCEPT ![a].pc = "commit",
                                    ![a].new = Changed(Disabling, peers[p])]
         \/ /\ p \in DOMAIN peers
            /\ task[a].op = "delete"
            /\ task' = [task EXCEPT ![a].pc = "commit"]
    /\ UNCHANGED <<gateway, peers>>

\* UPDATE of the changed columns; fails if the row, or the site, has gone.
CommitEdit(a) ==
    /\ task[a].pc = "commit"
    /\ task[a].op \in {"update", "disable"}
    /\ \E p \in task[a].peer :
         LET new == task[a].new
         IN  peers' =
               IF \/ p \notin DOMAIN peers
                  \/ \E s \in new.site : ~SiteExists(s)
               THEN peers
               ELSE [peers EXCEPT ![p] = Written(new, @)]
    /\ Finish(a)
    /\ UNCHANGED gateway

\* The site keeps the id of a gateway that is deleted.
CommitDelete(a) ==
    /\ task[a].pc = "commit"
    /\ task[a].op = "delete"
    /\ peers' = Without(peers, task[a].peer)
    /\ Finish(a)
    /\ UNCHANGED gateway

-----------------------------------------------------------------------------
(* The sweep.                                                              *)

\* Mutant: the sweep reads the peers that are disabled.
StatusDirtyDisabled(row) == ~row.enabled /\ row.status # "unknown"

\* A row the sweep reads and changes.
StatusDirty(row) == row.enabled /\ row.status # "unknown"

SelectPeers ==
    /\ task[Worker].pc = "select"
    /\ task' = [task EXCEPT ![Worker].pc = "commit",
                   ![Worker].dirty = {p \in DOMAIN peers : StatusDirty(peers[p])}]
    /\ UNCHANGED <<gateway, peers>>

\* One UPDATE for all of them, which fails if a row has gone meanwhile.
CommitSweep ==
    /\ task[Worker].pc = "commit"
    /\ LET dirty == task[Worker].dirty
       IN  peers' = IF dirty \subseteq DOMAIN peers
                    THEN [p \in DOMAIN peers |->
                            IF p \in dirty
                            THEN [peers[p] EXCEPT !.status = "unknown"]
                            ELSE peers[p]]
                    ELSE peers
    /\ Finish(Worker)
    /\ UNCHANGED gateway

\* An exception, a lost connection or a crash, of the worker as well.
Abort(a) == /\ task[a].pc # "idle"
            /\ Finish(a)
            /\ UNCHANGED <<gateway, peers>>

Next == \/ CreateSite
        \/ BeginSweep \/ SelectPeers \/ CommitSweep \/ Abort(Worker)
        \/ \E a \in Req : \/ BeginSite(a) \/ BeginPeer(a) \/ BeginCreate(a)
                          \/ LoadSite(a) \/ CommitPatchSite(a)
                          \/ CommitDeleteSite(a)
                          \/ SelectIp(a) \/ CommitNewPeer(a) \/ LoadPeer(a)
                          \/ CommitEdit(a) \/ CommitDelete(a) \/ Abort(a)

Spec == Init /\ [][Next]_vars

-----------------------------------------------------------------------------
(* Properties.                                                             *)

\* Every variable has its type.
TypeOK == /\ Live \subseteq Site
          /\ gateway \in [Live -> Peer \cup {NoPeer}]
          /\ DOMAIN peers \subseteq Peer
          /\ peers \in [DOMAIN peers -> Row]
          /\ task \in [Actor -> Task]

\* Provisioning allocates an address that no peer has, enabled or not, and
\* not the hub's, unless another request was in flight meanwhile.
SoloAddressIsFree ==
    [][\A a \in Req :
          CommitNewPeer(a) /\ task[a].op = "provision" /\ task[a].solo =>
              /\ task[a].ip \notin {Hub, NoIp}
              /\ \A p \in DOMAIN peers : peers[p].ip # task[a].ip]_vars

Belongs(s) == gateway[s] \in DOMAIN peers /\ peers[gateway[s]].site = s

\* A peer never outlives its site, even one created while it is deleted; and
\* what separates a site from its gateway is only that this gateway is
\* deleted or moved, or was at another site when the deletion of that one
\* read its peers, or that a PATCH of the site names another; whatever else is
\* provisioned, edited or deleted meanwhile.
FleetConsistent ==
    [][/\ \A p \in DOMAIN peers' : peers'[p].site \in Live' \cup {NoSite}
       /\ \A s \in Live' :
            gateway'[s] # NoPeer /\ ~Belongs(s)' /\ (s \in Live => Belongs(s)) =>
               \E a \in Req :
                  \/ /\ CommitDelete(a) \/ CommitEdit(a)
                     /\ task[a].peer = {gateway[s]}
                  \/ /\ CommitDeleteSite(a)
                     /\ gateway[s] \in task[a].dirty /\ s \notin task[a].site
                  \/ CommitPatchSite(a) /\ s \in task[a].site]_vars

Stale(p) == p \in DOMAIN peers /\ peers[p].enabled /\ peers[p].status = "disabled"

\* A peer that is enabled again does not stay marked as disabled: a sweep
\* clears the mark, as soon as rows are no longer deleted under the sweeps.
StatusSettles ==
    <>[][~\E a \in Req : CommitDelete(a) \/ CommitDeleteSite(a)]_vars
        => \A p \in Peer : Stale(p) ~> ~Stale(p)
================================================================================
