------------------------------ MODULE MCPanels ------------------------------
(***************************************************************************)
(* The parts behind the panels, which share no state, checked in one run:  *)
(* a behaviour is a scene of one of them, or one input of the collectors   *)
(* or of what is shown of a terminal.                                      *)
(***************************************************************************)
EXTENDS MonitorPanels, FilePreview, Samplers, TerminalView

CONSTANT Scenes  \* the parts a run looks at

VARIABLES
  scene,
  input  \* what the system told a collector, in the scene "sample"

vars == <<monitorVars, previewVars, scene, input>>

MCConfigs ==
  {[enabled |-> {"network"}, processes |-> TRUE, connections |-> TRUE,
    geoip |-> "bundled", endpoint |-> "https", hidden |-> FALSE],
   [enabled |-> {"directory", "network"}, processes |-> FALSE, connections |-> FALSE,
    geoip |-> None, endpoint |-> None, hidden |-> TRUE]}

UpTo(S, n) == UNION {[1..k -> S] : k \in 0..n}

(***************************************************************************)
(* Inputs of the collectors                                                *)
(***************************************************************************)
(* Read in the opposite order of the names.                                *)
Directories ==
  {[what |-> "directory", showHidden |-> showHidden,
    read |-> [i \in DOMAIN s |-> [name |-> 9 - i, hidden |-> s[i][1], dir |-> s[i][2],
                                  readable |-> s[i][3]]]] :
     s \in UpTo(BOOLEAN \X BOOLEAN \X BOOLEAN, 4), showHidden \in BOOLEAN}

Texts ==
  {[what |-> "text", bytes |-> bytes, lines |-> lines, cut |-> cut, more |-> more] :
     bytes \in {"text", "binary"}, lines \in UpTo({Blank, "words"}, 4),
     cut \in BOOLEAN, more \in BOOLEAN}

Sockets ==
  {[what |-> "sockets", read |-> s] :
     s \in UpTo([ok : {TRUE}, tcp : {TRUE}, state : {"established", "listen", "closing"},
                 remote : {"peer"}, pids : {<<>>, <<7, 8>>}]
                \cup [ok : {TRUE}, tcp : BOOLEAN, state : {"established"}, remote : {Absent},
                      pids : {<<8>>}]
                \cup [ok : {FALSE}, tcp : {TRUE}, state : {"established"}, remote : {"peer"},
                      pids : {<<7, 8>>}], 4)}

Processes ==
  {[what |-> "processes", read |-> s, limit |-> limit] :
     s \in UpTo([cpu : 0..1, memory : 0..2], 3), limit \in 1..3}

InterfaceLists ==
  {[what |-> "interfaces",
    read |-> [i \in DOMAIN s |-> [rx |-> s[i].rx, tx |-> s[i].tx, loopback |-> s[i].loopback,
                                  used |-> s[i].used, name |-> i]]] :
     s \in UpTo([rx : 0..1, tx : 0..1, loopback : BOOLEAN, used : BOOLEAN], 3)}

Peers ==
  {[what |-> "peers", read |-> s] :
     s \in UpTo([cell : {Absent, "here", "there", "beyond"}, name : {Absent, "sh", "curl"}], 3)}

(* Around every boundary of the reserved blocks.                           *)
FirstOctets ==
  {0, 1, 9, 10, 11, 99, 100, 101, 126, 127, 128, 168, 169, 170, 171, 172, 173, 191, 192, 193,
   197, 198, 199, 202, 203, 204, 223, 224, 239, 240, 255}
SecondOctets == {0, 15, 16, 17, 18, 19, 20, 31, 32, 51, 63, 64, 127, 128, 167, 168, 169, 253, 254}
V4 == {[v6 |-> FALSE, at |-> <<a, b, c, 1>>] :
         a \in FirstOctets, b \in SecondOctets, c \in {0, 1, 2, 100, 113}}
V4Mapped == {[v6 |-> TRUE, at |-> <<0, 0, 0, 0, 0, 65535, ip.at[1] * 256 + ip.at[2],
                                    ip.at[3] * 256 + 1>>] : ip \in V4}
FirstSegments ==
  {0, 1, 255, 256, 257, 8192, 8193, 8194, 64511, 64512, 65023, 65024, 65151, 65152, 65215,
   65216, 65279, 65280, 65535}
V6 == {[v6 |-> TRUE, at |-> <<a, b, c, 0, 0, 0, 0, z>>] :
         a \in FirstSegments, b \in {0, 1, 3512}, c \in {0, 1}, z \in {0, 1, 2}}
Addresses == {[what |-> "address", ip |-> ip] : ip \in V4 \cup V4Mapped \cup V6}

Answers ==
  {[what |-> "answer", endpoint |-> e, body |-> b] :
     e \in [https : BOOLEAN, long : BOOLEAN, spaces : BOOLEAN],
     b \in [parses : BOOLEAN, ip : {[v6 |-> FALSE, at |-> <<a, 0, 0, 1>>] : a \in {8, 10}},
            json : BOOLEAN, city : BOOLEAN, pair : {Absent, "valid", "outside"},
            loc : {"valid", "outside"}]}

(* Every short row, and screens of three rows under a history of one.      *)
Searches ==
  {[what |-> "search", rows |-> rows, history |-> Len(rows) \div 3, query |-> q, cap |-> cap] :
     rows \in {<<r>> : r \in UpTo({"a", "A", "I.", "b"}, 4)}
             \cup [1..3 -> {<<"a", "A", "a">>, <<"w", Spacer, "a", "b">>, <<"I.", "a", "a">>, <<"b">>}],
     q \in {<<>>, <<"a">>, <<"A", "a">>, <<"a", "b">>, <<".">>, <<"i", ".">>, <<".", "i">>, <<"w", "a">>},
     cap \in 1..2}

GridPoints == [row : {0, 1, 3}, col : {0, 1, 3}]
Selections ==
  {[what |-> "selection", from |-> from, to |-> to, block |-> block, offset |-> o, scrolled |-> n,
    size |-> size] :
     from \in GridPoints, to \in GridPoints, block \in BOOLEAN, o \in 0..1, n \in 0..4,
     size \in {TermSize(0, 0), TermSize(3, 3)}}

Titles ==
  {[what |-> "title", raw |-> raw, max |-> max] :
     raw \in UpTo([bytes : 1..3, control : BOOLEAN], 3), max \in 0..5}

Histories ==
  {[what |-> "history", columns |-> columns, limits |-> [scrollback_lines |-> lines, history_bytes |-> b]] :
     columns \in 0..4, lines \in {0, 1, 3, 10}, b \in {0, 31, 32, 96, 97, 1000}}

Inputs == Directories \cup Texts \cup Sockets \cup Processes \cup InterfaceLists \cup Peers
          \cup Addresses \cup Answers \cup Searches \cup Selections \cup Titles \cup Histories

(***************************************************************************)
(* Reference definitions                                                   *)
(***************************************************************************)
Elements(s) == {s[i] : i \in DOMAIN s}

(* The doc comment of is_public as blocks: a base of 24 bits, and how many *)
(* of the networks that 24 bits name it stands for.                        *)
Block(a, b, c, size) == [base |-> a * 65536 + b * 256 + c, size |-> size]
NotRoutable ==
  {Block(0, 0, 0, 65536), Block(10, 0, 0, 65536), Block(100, 64, 0, 16384),  \* /8, /8, /10
   Block(127, 0, 0, 65536), Block(169, 254, 0, 256), Block(172, 16, 0, 4096),  \* /8, /16, /12
   Block(192, 0, 0, 1), Block(192, 0, 2, 1), Block(192, 168, 0, 256),  \* /24, /24, /16
   Block(198, 18, 0, 512), Block(198, 51, 100, 1), Block(203, 0, 113, 1),  \* /15, /24, /24
   Block(224, 0, 0, 1048576), Block(240, 0, 0, 1048576)}  \* /4, /4
InBlock(o, block) ==
  (o[1] * 65536 + o[2] * 256 + o[3]) \div block.size = block.base \div block.size

Between(n, a, b) == a <= n /\ n <= b
RoutableV6(s) ==
  /\ ~Between(s[1], 64512, 65023)      \* fc00::/7
  /\ ~Between(s[1], 65152, 65279)      \* fe80::/10, fec0::/10
  /\ ~Between(s[1], 65280, 65535)      \* ff00::/8
  /\ ~(s[1] = 8193 /\ s[2] = 3512)     \* 2001:db8::/32
  /\ ~(s[1] = 256 /\ \A i \in 2..4 : s[i] = 0)  \* 100::/64
  /\ ~(s[8] \in {0, 1} /\ \A i \in 1..7 : s[i] = 0)

HoldsV4(s) == s[6] = 65535 /\ \A i \in 1..5 : s[i] = 0  \* ::ffff:0:0/96
Routable(ip) ==
  IF ip.v6 /\ ~HoldsV4(ip.at) THEN RoutableV6(ip.at)
  ELSE LET o == IF ip.v6 THEN Embedded(ip.at) ELSE ip.at
       IN \A block \in NotRoutable : ~InBlock(o, block)

(* Rows and the number after them account for every entry that could be    *)
(* read; nothing hidden is shown; a directory that was listed comes before *)
(* any file.                                                               *)
DirectoryHonest(read, showHidden) ==
  LET listing == ListDirectory(read, showHidden)
      rows == FileRows(listing)
      mayShow == {i \in DOMAIN read : showHidden \/ ~read[i].hidden}
  IN /\ \A e \in Elements(rows) : e.readable /\ (showHidden \/ ~e.hidden)
     /\ Len(rows) + NotShown(listing) \in
          Cardinality({i \in mayShow : read[i].readable})..Cardinality(mayShow)
     /\ (\E e \in Elements(rows) : ~e.dir) =>
          \A e \in Elements(listing.entries) : e.dir => e \in Elements(rows)

(* A text is shown, and without the mark that it goes on every line with   *)
(* words is.  Of the character that a file ends in the middle of this says *)
(* nothing: it is left out, and there is no mark for it.                   *)
TextHonest(head) ==
  LET p == TextPreview(head)
      words(s) == Cardinality({i \in DOMAIN s : s[i] # Blank})
  IN /\ IsPrefix(p.lines, head.lines)
     /\ head.bytes = "text" /\ head.lines # <<>> => ~p.note
     /\ ~p.note /\ ~p.truncated => ~head.more /\ words(p.lines) = words(head.lines)

(* No connection is dropped for one of a lower rank; a row has a peer, and *)
(* the name of its process where the system gives it.                      *)
ConnectionsHonest(read) ==
  LET list == ListConnections(read)
      scanned == Take(read, MaxSockets)
      had(r) == Cardinality({i \in DOMAIN scanned : scanned[i].ok
                                /\ StateRank(ToConnection(scanned[i])) = r})
      kept(r) == Cardinality({i \in DOMAIN list : StateRank(list[i]) = r})
      names == [p \in Owners(list) |-> "curl"]
  IN /\ \A r, q \in 0..2 : r < q /\ kept(q) > 0 => kept(r) = had(r)
     /\ Len(list) = Least(had(0) + had(1) + had(2), MaxConnections)
     /\ \A c \in Elements(ConnectionRows(list)) :
          c.state # "listen" /\ (c.pids # <<>> => OwnerName(c, list, names) # Absent)

ProcessesHonest(read, limit) ==
  LET top == TopN(read, limit)
  IN /\ Len(top) = Least(Least(limit, MaxProcesses), Len(read))
     /\ \A p \in Elements(top) :
          Cardinality({i \in DOMAIN read : BusierProcess(read[i], p)}) < Len(top)

InterfacesHonest(read) ==
  LET list == Interfaces(read)
  IN \A i \in Elements(read) :
       /\ i \in Elements(list) => i.used /\ ~i.loopback
       /\ i.used /\ ~i.loopback /\ i \notin Elements(list) =>
            Len(list) = MaxInterfaces /\ \A k \in Elements(list) : i.rx + i.tx <= k.rx + k.tx

(* One marker for a place, and its label counts every process there.       *)
MarkersHonest(read) ==
  LET m == MarkersFrom(read)
      cells == {p.cell : p \in Elements(read)} \ {Absent}
  IN /\ Cardinality({k.cell : k \in Elements(m)}) = Len(m)
     /\ Len(m) = Least(MaxMarkers, Cardinality(cells))
     /\ \A k \in Elements(m) : k.cell \in cells /\
          k.label.spelled + k.label.rest = Cardinality(NamesAt(read, k.cell))

(* What a panel shows of a list that was filtered, sorted and cut is what  *)
(* it claims to be: nothing hidden, nothing better dropped, what is not    *)
(* shown counted (files.rs, preview.rs, connections.rs, processes.rs,      *)
(* network.rs, globe.rs).                                                  *)
SamplesHonest ==
  CASE input.what = "directory" -> DirectoryHonest(input.read, input.showHidden)
    [] input.what = "text" -> TextHonest(input)
    [] input.what = "sockets" -> ConnectionsHonest(input.read)
    [] input.what = "processes" -> ProcessesHonest(input.read, input.limit)
    [] input.what = "interfaces" -> InterfacesHonest(input.read)
    [] input.what = "peers" -> MarkersHonest(input.read)
    [] OTHER -> TRUE

(* is_public is what its comment says, block by block; no other address is *)
(* looked up, and none is believed of an endpoint, which is only asked     *)
(* over https (connections.rs, geoip.rs, public_ip.rs).                    *)
PublicOnly ==
  CASE input.what = "address" ->
         /\ IsPublic(input.ip) = Routable(input.ip)
         /\ Lookup(input.ip, [ip \in {input.ip} |-> "place"]) # Absent => Routable(input.ip)
    [] input.what = "answer" ->
         \A info \in Fetch(input.endpoint, input.body) :
              /\ input.endpoint.https /\ Routable(info.ip)
              /\ info.place => input.body.city \/ "valid" \in {input.body.pair, input.body.loc}
    [] OTHER -> TRUE

(* The cells of a match spell the query and no fewer do; matches come in   *)
(* order and share a cell only if it stands for more than one character;   *)
(* a result that is not cut leaves none out.                               *)
SearchHonest(in) ==
  LET result == SearchLiteral(in.rows, in.history, in.query, in.cap)
      needle == Lowered(in.query)
      matches == Elements(result.matches)
      cells(line, a, b) == SubSeq(in.rows[line + in.history + 1], a + 1, b + 1)
      spells(line, a, b) ==
        LET marked == cells(line, a, b)
            text == FlattenSeq([i \in DOMAIN marked |-> CellText(marked[i])])
        IN \E k \in 1..(Len(text) - Len(needle) + 1) : SubSeq(text, k, k + Len(needle) - 1) = needle
      overlaps(m, line, a, b) == m.line = line /\ m.start_col <= b /\ a <= m.end_col
  IN /\ Len(result.matches) <= in.cap
     /\ \A i \in 2..Len(result.matches) :
          LET before == result.matches[i - 1]  m == result.matches[i]
          IN \/ m.line > before.line
             \/ m.line = before.line /\ m.start_col > before.end_col
             \/ m.line = before.line /\ m.start_col = before.end_col
                /\ Len(Lowered(cells(m.line, m.start_col, m.start_col))) > 1
     /\ \A m \in matches :
          /\ spells(m.line, m.start_col, m.end_col)
          /\ m.start_col < m.end_col => ~spells(m.line, m.start_col + 1, m.end_col)
                                        /\ ~spells(m.line, m.start_col, m.end_col - 1)
     /\ needle # <<>> /\ ~result.truncated =>
          \A i \in DOMAIN in.rows : \A b \in 0..(Len(in.rows[i]) - 1) : \A a \in 0..b :
            LET line == i - 1 - in.history
            IN spells(line, a, b) => \E m \in matches : overlaps(m, line, a, b)

(* Stepping forward goes from newer to older lines and comes to every one  *)
(* with a match, backward is its reverse, and the line stepped to is in    *)
(* the window, wherever it was before, with its match marked.              *)
StepsHonest(in) ==
  LET result == SearchLiteral(in.rows, in.history, in.query, in.cap)
      len == Len(result.matches)
      screen == Len(in.rows) - in.history
  IN \A index \in 0..(len - 1) :
       LET next == Stepped(index, TRUE, len)
       IN /\ Stepped(next, FALSE, len) = index
          /\ next # 0 => LineAt(result, next) <= LineAt(result, index)
          /\ index # 0 => \E k \in 0..(index - 1) : Stepped(k, TRUE, len) = index
          /\ \A o \in 0..in.history :
               LET offset == ScrollToLine(LineAt(result, index), o, screen)
                   row == LineAt(result, index) + offset
               IN /\ offset \in 0..in.history /\ row \in 0..(screen - 1)
                  /\ \E col \in 0..3 : IsSearchHit(result, offset, row, col)

(* The window shows as selected exactly the cells in it that are, after    *)
(* any scrolling, and the cursor where it is.                              *)
SelectionHonest(in) ==
  LET p == ToEnginePoint(in.from, in.offset, in.size)
      q == ToEnginePoint(in.to, in.offset, in.size)
      ahead == p.line < q.line \/ (p.line = q.line /\ p.column <= q.column)
      start == IF ahead THEN p ELSE q
      end == IF ahead THEN q ELSE p
      within(line, col) ==
        /\ line \in start.line..end.line
        /\ IF in.block
             THEN col \in Least(p.column, q.column)..(p.column + q.column - Least(p.column, q.column))
             ELSE (line > start.line \/ col >= start.column) /\ (line < end.line \/ col <= end.column)
      offset == in.offset + in.scrolled - 2
      span == ClipSelection(start, end, in.block, offset, in.size)
      cursor == ConvertCursor(FALSE, q, offset, in.size.rows)
  IN \A row \in 0..(in.size.rows - 1), col \in 0..(in.size.columns - 1) :
       /\ (span.is /\ SpanContains(span, row, col)) = within(row - offset, col)
       /\ (cursor.is /\ cursor.row = row /\ cursor.col = col) = (q = [line |-> row - offset, column |-> col])

(* No limit is passed, and neither history nor title is cut more than the  *)
(* limits ask.                                                             *)
LimitsHonest(in) ==
  IF in.what = "title"
    THEN LET title == SanitizeTitle(in.raw, in.max)
             clean == Kept(in.raw, {i \in DOMAIN in.raw : ~in.raw[i].control})
         IN /\ IsPrefix(title, clean) /\ Bytes(title) <= in.max
            /\ title = clean \/ Bytes(title) + clean[Len(title) + 1].bytes > in.max
    ELSE LET lines == EffectiveScrollback(in.limits, in.columns)
             bytes(n) == n * BytesPerCell * in.columns
         IN /\ lines <= in.limits.scrollback_lines /\ bytes(lines) <= in.limits.history_bytes
            /\ lines < in.limits.scrollback_lines /\ in.columns > 0 =>
                 bytes(lines + 1) > in.limits.history_bytes

(* What is marked as found or selected is, what is not shown of it is cut  *)
(* by a limit only, and stepping through the results brings each into view *)
(* (search.rs, adapter.rs, snapshot.rs, policy.rs, commands.rs).           *)
ViewHonest ==
  CASE input.what = "search" -> SearchHonest(input) /\ StepsHonest(input)
    [] input.what = "selection" -> SelectionHonest(input)
    [] input.what \in {"title", "history"} -> LimitsHonest(input)
    [] OTHER -> TRUE

(***************************************************************************)
(* Scenes                                                                  *)
(***************************************************************************)
NoInput == [what |-> "nothing"]

Init ==
  /\ scene \in Scenes
  /\ MonitorInit /\ PreviewInit
  /\ scene # "monitor" => panels = (CHOOSE c \in Configs : TRUE) /\ pid = None /\ ~worker
  /\ scene # "preview" => preview
  /\ input \in (IF scene = "sample" THEN Inputs ELSE {NoInput})

Next ==
  \/ scene = "monitor" /\ MonitorNext /\ UNCHANGED <<previewVars, scene, input>>
  \/ scene = "preview" /\ PreviewNext /\ UNCHANGED <<monitorVars, scene, input>>

Spec == Init /\ [][Next]_vars /\ MonitorFairness /\ PreviewFairness
=============================================================================
