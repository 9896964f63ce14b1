------------------------------ MODULE Samplers ------------------------------
(***************************************************************************)
(* What the monitor's collectors make of what the system tells them        *)
(* (panels/files.rs, panels/preview.rs, monitor/*.rs, render/globe.rs):    *)
(* lists that are filtered, sorted, cut and counted, and addresses that    *)
(* are looked up only when public.  No state: functions of their input.    *)
(***************************************************************************)
EXTENDS Integers, SequencesExt

CONSTANTS
  MaxEntries, ShownEntries,       \* files.rs
  MaxLines,                       \* preview.rs
  MaxSockets, MaxConnections,     \* connections.rs
  ShownConnections,               \* views.rs
  MaxProcesses, MaxInterfaces,    \* processes.rs, network.rs
  MaxMarkers, NamesPerLabel       \* globe.rs

ASSUME SamplersAssumption ==
  \A n \in {MaxEntries, ShownEntries, MaxLines, MaxSockets, MaxConnections, ShownConnections,
            MaxProcesses, MaxInterfaces, MaxMarkers, NamesPerLabel} : n \in Nat \ {0}

Absent == "absent"

Least(a, b) == IF a < b THEN a ELSE b
Take(s, n) == SubSeq(s, 1, Least(n, Len(s)))

(***************************************************************************)
(* Lists that are filtered and sorted.  The provers know nothing of        *)
(* SelectSeq and SortSeq, so what is kept of a list, and in which order,   *)
(* is said by positions.                                                   *)
(***************************************************************************)
(* The k-th of the positions I in the order R, a set of pairs.             *)
Nth(I, R, k) == CHOOSE i \in I : Cardinality({j \in I : <<j, i>> \in R}) = k - 1
Arranged(s, I, R) == [k \in 1..Cardinality(I) |-> s[Nth(I, R, k)]]

InOrder(I) == {p \in I \X I : p[1] < p[2]}
Kept(s, I) == Arranged(s, I, InOrder(I))

(* What compares equal keeps its order.                                    *)
Stable(I, B) == {p \in I \X I : p \in B \/ (<<p[2], p[1]>> \notin B /\ p[1] < p[2])}
Sorted(s, Before(_, _)) ==
  LET I == DOMAIN s
  IN Arranged(s, I, Stable(I, {p \in I \X I : Before(s[p[1]], s[p[2]])}))

(***************************************************************************)
(* The directory panel.  An entry is read as [name, hidden, dir, link,     *)
(* readable]; names are numbers in their case-insensitive order.           *)
(***************************************************************************)
Listable(showHidden, e) == showHidden \/ ~e.hidden
Visible(read, showHidden) == Kept(read, {i \in DOMAIN read : Listable(showHidden, read[i])})
ReadableBefore(s, i) == Cardinality({j \in 1..(i - 1) : s[j].readable})

(* order: directories first, and a link to a directory is one.             *)
FilesBefore(a, b) == IF a.dir # b.dir THEN a.dir ELSE a.name < b.name

(* list_directory: what is met after the limit is only counted, whether or *)
(* not it could be read; before it, what cannot be read is left out.       *)
Omitted(s) == Cardinality({i \in DOMAIN s : ReadableBefore(s, i) >= MaxEntries})
ListDirectory(read, showHidden) ==
  LET s == Visible(read, showHidden)
      listed == Take(Kept(s, {i \in DOMAIN s : s[i].readable}), MaxEntries)
  IN [entries |-> Sorted(listed, FilesBefore), omitted |-> Omitted(s)]

(* view: the rows, and the number after them.                              *)
FileRows(listing) == Take(listing.entries, ShownEntries)
NotShownListed(listing) == Len(listing.entries) - Len(FileRows(listing))
NotShown(listing) == Len(listing.entries) - Len(FileRows(listing)) + listing.omitted

(***************************************************************************)
(* The text preview.  A file is its lines, each blank or not, whether the  *)
(* bytes that were read end within a character (`cut`), and whether it     *)
(* goes on after them; `bytes` says what they are.  A line that is too     *)
(* long ends in a mark of its own.                                         *)
(***************************************************************************)
Blank == "blank"
LastFilled(lines) == Cardinality({i \in DOMAIN lines : \E j \in i..Len(lines) : lines[j] # Blank})
(* Mutant: bytes that end within a character are no text.                  *)
CutIsBinary(head) == head.bytes # "text" \/ head.cut \/ head.lines = <<>>

(* from_utf8: what is cut within the last character is text without it.    *)
NoText(head) == head.bytes # "text" \/ (head.lines = <<>> /\ ~head.cut)

TextPreview(head) ==
  IF NoText(head) THEN [note |-> TRUE, lines |-> <<>>, truncated |-> FALSE]
  ELSE LET kept == Take(head.lines, MaxLines)
       IN [note |-> FALSE,
           lines |-> SubSeq(kept, 1, LastFilled(kept)),
           truncated |-> head.more \/ Len(head.lines) > MaxLines]

(***************************************************************************)
(* Connections                                                             *)
(***************************************************************************)
StateRank(c) == CASE c.state = "established" -> 0 [] c.state = "listen" -> 1 [] OTHER -> 2

(* map_tcp_state, to_connection: [ok, tcp, state, remote] as the system    *)
(* lists it; a listener and a socket without a peer have no remote.        *)
ToConnection(socket) ==
  LET state == IF socket.tcp /\ socket.state \in {"established", "listen"} THEN socket.state
               ELSE "other"
  IN [tcp |-> socket.tcp, state |-> state, pids |-> socket.pids,
      remote |-> IF socket.tcp /\ state # "listen" THEN socket.remote ELSE Absent]

LowerRank(a, b) == StateRank(a) < StateRank(b)
ListConnections(sockets) ==
  LET scanned == Take(sockets, MaxSockets)
      read == Kept(scanned, {i \in DOMAIN scanned : scanned[i].ok})
      all == [i \in DOMAIN read |-> ToConnection(read[i])]
  IN Take(Sorted(all, LowerRank), MaxConnections)

ConnectionRows(list) ==
  Take(Kept(list, {i \in DOMAIN list : list[i].remote # Absent}), ShownConnections)

(* name_owners: the first process of each, of those with a peer asked for. *)
Owners(list) == {list[i].pids[1] : i \in {j \in DOMAIN list :
                                           list[j].remote # Absent /\ list[j].pids # <<>>}}
OwnerName(c, list, names) ==
  IF c.pids # <<>> /\ c.pids[1] \in Owners(list) \cap DOMAIN names THEN names[c.pids[1]] ELSE Absent

(***************************************************************************)
(* Processes and interfaces                                                *)
(***************************************************************************)
BusierProcess(a, b) == IF a.cpu # b.cpu THEN a.cpu > b.cpu ELSE a.memory > b.memory
TopN(list, limit) == Take(Sorted(list, BusierProcess), Least(limit, MaxProcesses))

(* sample: loopback and interfaces that never carried anything left out.   *)
BusierInterface(a, b) ==
  IF a.rx + a.tx # b.rx + b.tx THEN a.rx + a.tx > b.rx + b.tx ELSE a.name < b.name
Interfaces(list) ==
  LET used == Kept(list, {i \in DOMAIN list : ~list[i].loopback /\ list[i].used})
  IN Take(Sorted(used, BusierInterface), MaxInterfaces)

(***************************************************************************)
(* Addresses: [v6 |-> FALSE, octets] or [v6 |-> TRUE, segments].           *)
(***************************************************************************)
IsPublicV4(o) ==
  LET a == o[1]  b == o[2]  c == o[3]
      reserved ==
        \/ a = 0
        \/ a = 100 /\ b \in 64..127
        \/ a = 192 /\ b = 0 /\ c = 0
        \/ a = 198 /\ b \in {18, 19}
        \/ a >= 240
      loopback == a = 127
      private == a = 10 \/ (a = 172 /\ b \in 16..31) \/ (a = 192 /\ b = 168)
      linkLocal == a = 169 /\ b = 254
      multicast == a \in 224..239
      documentation == <<a, b, c>> \in {<<192, 0, 2>>, <<198, 51, 100>>, <<203, 0, 113>>}
  IN ~(reserved \/ loopback \/ private \/ linkLocal \/ multicast \/ documentation)

IsPublicV6(s) ==
  LET zeroUpTo(n) == \A i \in 1..n : s[i] = 0
      loopback == zeroUpTo(7) /\ s[8] \in {0, 1}
      multicast == s[1] \div 256 = 255
      uniqueLocal == s[1] \div 512 = 126
      linkLocal == s[1] \div 64 = 1018
      siteLocal == s[1] \div 64 = 1019
      documentation == s[1] = 8193 /\ s[2] = 3512
      discard == s[1] = 256 /\ \A i \in 2..4 : s[i] = 0
  IN ~(loopback \/ multicast \/ uniqueLocal \/ linkLocal \/ siteLocal \/ documentation \/ discard)

(* to_ipv4_mapped: ::ffff:a.b.c.d is judged by a.b.c.d.                    *)
NeverMapped(s) == FALSE
Mapped(s) == (\A i \in 1..5 : s[i] = 0) /\ s[6] = 65535
Embedded(s) == <<s[7] \div 256, s[7] % 256, s[8] \div 256, s[8] % 256>>

IsPublic(ip) ==
  IF ~ip.v6 THEN IsPublicV4(ip.at)
  ELSE IF Mapped(ip.at) THEN IsPublicV4(Embedded(ip.at))
  ELSE IsPublicV6(ip.at)

(* GeoIp::lookup, GeoIpSource: a database maps addresses to places.        *)
Lookup(ip, database) ==
  IF IsPublic(ip) /\ ip \in DOMAIN database THEN database[ip] ELSE Absent

(* validate_endpoint, fetch, parse_body: what an endpoint is believed, at  *)
(* most one answer.                                                        *)
EndpointValid(e) == e.https /\ ~e.long /\ ~e.spaces
Coordinates(body) ==
  IF body.pair # Absent THEN body.pair = "valid" ELSE body.loc = "valid"
ParseBody(body) ==
  IF ~(body.parses /\ IsPublic(body.ip)) THEN {}
  ELSE {[ip |-> body.ip, place |-> body.json /\ (body.city \/ Coordinates(body))]}
Fetch(endpoint, answer) ==
  IF EndpointValid(endpoint) THEN ParseBody(answer) ELSE {}

(* locate_home: the endpoint's own place, or else the database's.          *)
LocateHome(info, database) ==
  [ip |-> info.ip, place |-> info.place \/ Lookup(info.ip, database) # Absent]

(***************************************************************************)
(* The globe.  A peer located is [cell, name]: its place on the 1-degree   *)
(* grid, Absent where it is no place, and its process, Absent if unknown.  *)
(***************************************************************************)
Cells(list) ==
  LET placed == Kept(list, {i \in DOMAIN list : list[i].cell # Absent})
      first == Kept(placed, {i \in DOMAIN placed :
                               \A j \in 1..(i - 1) : placed[j].cell # placed[i].cell})
  IN Take([k \in DOMAIN first |-> first[k].cell], MaxMarkers)

NamesAt(list, cell) == {list[i].name : i \in {j \in DOMAIN list : list[j].cell = cell}} \ {Absent}

(* markers_from: one marker for a cell, with the names of all its peers,   *)
(* of which a few are spelled out and the rest counted.                    *)
MarkersFrom(list) ==
  LET cells == Cells(list)
      Label(n) == [spelled |-> Least(n, NamesPerLabel), rest |-> n - Least(n, NamesPerLabel)]
  IN [k \in DOMAIN cells |->
        [cell |-> cells[k], label |-> Label(Cardinality(NamesAt(list, cells[k])))]]
=============================================================================
