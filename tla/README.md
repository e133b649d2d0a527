# A TLA+ model of Legend of Stealth

Legend of Stealth is a two-dimensional multiplayer game in C++: a server that
gathers players in a lobby, and a client that loads a map, lights it and lets a
player walk through it. This directory models the parts of it that keep state,
checks them with TLC on small instances, and proves the safety properties the
passing runs check with TLAPS, for every instance.

## 1. Inventory

| Component | State | Operations | Interacts with | What makes it correct |
|---|---|---|---|---|
| `shared/Protocol` | none (a registry of creators) | `Serialize`, `Deserialize`, `ReadPacket` | `Socket` | what was written is read back, whatever lies behind it |
| `shared/Socket` | packet queue, disconnect flag | `SendPacket`, `GetPacket`, `HasActivity` | TCP; every owner of a socket | packets once, in order, none lost (which does not hold: finding); nothing returned that was not sent; the end of the stream noticed, and last |
| `server/ConnectionListener` | vector of new connections, mutex, abort flag | a thread that accepts; `HasNewConnection`, `GetNewSocket`, destructor | the server thread | a FIFO queue between two threads; `GetNewSocket` never `NULL`; the destructor returns |
| `server/Server`, `server/Client` | roster, player counter, a packet queue for each client | `ServerLoop`: take up connections, accept or refuse, broadcast, flush, kick | listener, sockets of all clients | roster bounded, numbers unique, every client learns who is there, teams balanced, requests answered, departures noticed |
| `client/ServerConnector` | two sockets, connected flag, player data | `ConnectToServer` with a time limit, getters, destructor | the server, the clock, its caller | failed attempts clean up, a connection keeps its sockets, a call ends |
| `client/LightSource`, `LightTexture` | texture, shared texture and its count | `SetLightProperties`, `SetTexture`, destructor | `ShadowLayer`, `Player`, `GameLayer` | the count is exact, nothing is deleted in use |
| `client/ShadowLayer` | lists of sources and casters, a render texture, a shader | `Add...`, `Remove...`, `Render` | as above; OpenGL | no deleted object stays listed; each light is lit up to its own shadows |
| `client/MapParser`, `MapLoader`, `Map`, `MapLayer` | tile template, layers, bodies | `ParseMap`, `LoadMap` | TMX file, `ShadowLayer`, Box2D | what stands, is drawn and gives light is where the file says |
| `client/ShadowCaster` | local and global vertices, the position they are for | `SetShadowRectangle`, `GetShadowShape`, `GetAABB` | its object, `ShadowLayer` | the cached shape follows the object |
| `client/Shader` | three OpenGL handles | constructor (load, compile, link), `Enable`, uniforms, destructor | `ShadowLayer`, OpenGL | a handle that is not 0 names a live object |
| `client/Player`, `GameLayer`, `GameScene` | body, position, rotation, camera, the scene | constructor, `Update`, `Render`, destructor | trutle, Box2D, all of the above | the frame's steps fit together whatever order trutle updates them in; everything is deleted, once |
| `client/PhysicsDebugDrawer` | none | draws bodies | Box2D, OpenGL | leaves no state behind that harms the next frame |
| `gtest`, resources, `main` functions | - | - | - | third-party, data, or no state |

The hard behaviours are: two threads and a mutex in the listener; join requests
that race the server loop; clients that leave at any moment, also while packets
for them are queued; a vector that shrinks while it is flushed; TCP, which joins and
splits packets, and UDP, which loses and repeats them; a time limit that races an
answer; manual reference counts; OpenGL's global state, which every drawing function
changes; positions and cached vertices of this frame and the last; and coordinate
systems with opposite directions. `PROJECT.json` lists each as a hazard,
at its line, with the properties aimed at it.

## 2. Modules

| Module | Models | Proofs |
|---|---|---|
| `Protocol` | the packet types and packets as records | |
| `PacketFactory` (extends `Protocol`) | the wire format, byte by byte | `SocketProofs` |
| `Socket` (extends `PacketFactory`) | receiving over TCP and UDP: `GetData`, `GetPacket`, the queue | `SocketProofs` |
| `Server` (extends `Protocol`) | the lobby | `ServerProofs` |
| `ConnectionQueue` | abstract: what the listener promises | |
| `ConnectionListener` (instantiates `ConnectionQueue`) | both threads of the listener | `ConnectionListenerProofs` |
| `ServerConnector` | connecting, and a caller that uses it as `test/ProtocolTests.cpp` does | `ServerConnectorProofs` |
| `Join` (extends `Server`, instantiates `ServerConnector`) | a client that joins the lobby, both ends as they are | `JoinProofs` |
| `Lights` | light sources, textures and `ShadowLayer`'s lists | `LightsProofs` |
| `MapLoading` | from TMX file to level | `MapLoadingProofs` |
| `ShadowCaster` | the outline of an object and its cache | |
| `Rendering` (extends `ShadowCaster`) | a frame, from draw call to draw call | |
| `GameLayer` (extends `Rendering`) | construction, update, frames and destruction of the game | `GameProofs`, for the last three modules |
| `MC...` | instances for TLC | |

Variables carry the names of the members they stand for, without the underscore;
variables marked (external) are the network, the other process or a library, and
(history) what only properties look at. A definition called a mutant in its comment
is a plausible mistake, used by no specification; `PROJECT.json` pairs each with the
property that must catch it.

**Server.** The server thread is cut wherever it touches a socket, because clients
can leave between any two of those points: `GetNewSocket`, then `Reject`,
`DropSocket` or `ReadFirstPacket`, then `ClientThrows` or `MakeClient`,
`BroadcastJoin` once for each client, `AddClient`; then
`FlushClient` or `FlushKick` for each client and `EndFlush`. `KickClient` is the whole
of the method, broadcasts included. `Broadcast` has a branch that kicks, too, but nobody on
the roster ever takes it: `IsConnected` changes only in `GetPacket`, which is not called
for a client that has joined; so it is only in a flush, when sending fails, that clients
go. Sending succeeds or fails; it can fail only once
the other end is gone, and need not. The block of memory behind each packet queue is
part of the state (`storage`): `SendPacket` deletes the buffer it is given, and
`SendPacketQueue` gives it the vector's own. From then on a vector may be used after
it was freed, and `HeapAbort` is the heap noticing; the other properties are
about the executions in which it has not, and every liveness property allows for it.
In the code, reading a packet never ends, because `ReadPacket` does not store the
length (below); the model lets each read end or not (`pc = "spin"`), so that what lies
behind it is checked as well. That goes for `ServerConnector` and `Join`, too, and for the
findings `server_departed`, `server_freed` and `connector_fetched`: their executions pass
a read that returns, so today these defects lie behind the one of `socket_length`. `_protoPhase` is assigned only once, so the branch for
`PROTO_NONE` cannot be reached and has no action.

**Socket.** Bytes have `ByteBase` values so that TLC can enumerate them; the codec
is parametric in it. `ReadPacket` leaves `packetlen` as it was, as in the code, so a turn
of the parsing loop queues a packet and advances by nothing: once there is a packet the
loop can read, it never ends (`ReadingNeverEnds`), and the same packet is queued over and
over (run `socket_length`). A call that ends has therefore returned no packet: it met
unreadable data, the end of the stream, an error, or a datagram that could not be
received. The branch of `Call` that returns a queued packet is in the code and in the
model, and never taken. A call has two parts, `Call`, which receives (`GetData` or
`GetDatagram`) or returns what is queued, and the loop, `ParsePacket` and `LeaveLoop`;
`GetMoreData` is the second `recv` of a full buffer. `DisconnectAfter` is the one place
where `_tcpDisconnect` is assigned, for either protocol.
A *setting*, chosen in `Init` and kept, says over which protocol the socket receives,
what the other end sends, whether a segment may end inside a packet, how many bytes
`GetData`'s first `recv` takes (128 in the code) and which bytes are found in memory
nobody wrote. Datagrams are lost, repeated and reordered by `Arrive` and `Lose`;
`GetDatagram` is the UDP branch of `GetData`; a receive may fail, or the datagram be empty,
and then there is no buffer.

**ConnectionListener.** Each critical section is two steps: taking the mutex and
reading the vector, and writing back and releasing; so a missing lock would be seen.
The server thread calls `GetNewSocket` only after `HasNewConnection`, as
`HandleNewTCPConnections` does.

**ServerConnector.** A socket object is named by its protocol and the attempt that
made it, and `heap` says who deleted it. The server answers anything, closes, or is
silent. Reading a packet may not return (`SpinInGetPacket`), as in `Server`.

**Join.** The client's process is `ServerConnector`, its parameters replaced by what
the network carries to and from `Server`. Each attempt has a connection of its own.
`~Socket` does not close a descriptor, so an attempt that was given up stays open for
the server; it is closed when the client's process ends (`CloseDescriptor`). What the
server wrote to a connection (`wire`) reaches the client packet by packet (`Deliver`);
an answer may so arrive when the client has gone on to its next attempt.

**Lights.** The methods of `LightSource` and `ShadowLayer` are called in any order, by
code that follows the rule of `ShadowLayer.h`, that deleted instances are removed.
What the program itself does today (lights from the map, then one player) is among
these orders. `corrupted` ends a behaviour: freed memory was used, or an erase went
past a vector. `radius` records where the value came from, not its number.

**MapLoading.** The file is an input, chosen in `Init`; parsing goes layer by layer,
loading tile by tile. Lengths are whole pixels or half metres, so that Box2D's centres
are integers. The properties state the result in terms of the file alone.

**ShadowCaster, Rendering, GameLayer.** The geometry has one axis, since the code
treats both alike: a rectangle is an interval, a level the pixels `0 .. MaxPos - 1`.
`gl` is the part of OpenGL's state the drawing functions use: render target, matrix
stack, program, stencil test and function, blend function, texture, colour, enabled
arrays and what their pointers point at. Each function is an action: `...State` is the
state its draw call uses, `After...` what it leaves behind. `draw` remembers the last
draw call with the state it used. A pointer to a local array is `"gone"` once its
function has returned. `RenderShadows` marks the stencil with the quads of
`GetShadowVertices`, `RenderLight` lights what is not marked. The end of a process is
`at = "crashed"` (a layer without buffers, or a read beyond one), `"threw"` (the
shader) or `"corrupted"` (the player's body, freed with the world). trutle decides
whether the camera or the player is updated first (`cameraFirst`) and how drawing its
children leaves the arrays; `BindFBO` and `UnbindFBO` are modelled from what
`DrawFillShadow` and `DrawRenderTexture` expect of them.

## 3. Runs

| Run | Instance | Shows |
|---|---|---|
| `server_lobby` | 4 connections, lobby of 3 | `TypeOK`; `RosterSound`, `UniqueIds`; `ResponseFirst`; `ViewsAgree`: every client's stream tells exactly who joined after it and is still there; `FlushPassesNobody`; `JoinKeepsBalance` |
| `join` | a client with 2 attempts, another client, a lobby of 2 | `ConnectedIsSeated`: who believes to have joined is on the roster under its number and team, however late earlier answers were; `AnswerComesFirst`; `InTimeIsSeated`, `RequestInTimeAnswered`, `QueuesDrain` |
| `socket` | 3 settings: packets joined at will in a large buffer; cut anywhere in a buffer of one packet, with garbage behind it; datagrams | in the first, `QueuedWasSent` and `NoByteLost`: what cannot be read is dropped up to the end of a packet, and nothing is made of leftovers; `DisconnectAfterAll` in all three; `CloseNoticed` in the first two: the end of the stream is noticed, unless the loop is reading; `DatagramsIntact` in the third; and `RoundTrip` of the codec over 32-bit values at every byte boundary |
| `listener` | 3 connections, all interleavings | `TypeOK`, `NeverNull`, `ImplementsQueue` (refinement), `DestructorReturns`, `EveryoneHandedOut` |
| `connector` | 2 attempts, 2 replies each, a limit of 2 ticks | `TypeOK`, `SocketsMatchResult`, `WaitEnds` |
| `lights` | 3 sources, 2 casters, 2 textures | `TypeOK`, `RefsCountUsers`, `TexturesRetained`, `DrawnAsMeasured`, `ListedCastersLive` |
| `map` | all maps of 2 by 3 tiles, up to 2 layers with a tile each, 1 object | `ObstaclesMatchMap`, `TilesDrawnInPlace`, `LightsMatchMap` |
| `game` | a level of 4 pixels with a tile, a lamp, the player and the mouse | `DrawnAsIntended` and `DrawsFromLiveMemory`: what one function leaves in OpenGL harms no later draw call; `LitUnlessShadowed`; `FacesTheMouse`; `ObjectsOwned` |
| `server_departed` | 2 connections, lobby of 2 | *violated*: who leaves while nothing is sent to it is never noticed, and the other player never told |
| `server_freed` | 3 connections | *violated* (`LeavesAreQueued`): `KickClient` puts a leave packet into a block that `SendPacket` has deleted |
| `connector_fetched` | 2 attempts | *violated*: the destructor deletes the sockets its caller has fetched |
| `socket_length` | 1 packet | *violated* (`ReturnedAsSent`): the first packet is queued again and again |

Each violation is a finding in `PROJECT.json`, with the line of the repository it
contradicts.

Bounds, and why they are enough:

- *Server.* The properties relate pairs of clients, the one being kicked or joining,
  and the loop index. Three on the roster are the fewest for which one is before, one
  at and one behind the index, and a fourth connection is refused, or joins in the
  place of a client that was kicked. A lobby of three instead of `MAX_PLAYERS` = 4
  changes nothing else. `IdMod` is as large as the number of connections: what happens
  after 2^32 joins is excluded by the properties themselves (`issued <= IdMod`). Clients
  send a join request or something unreadable; a packet of another type is read and
  the connection dropped, with the same effect as the latter (the two runs that expect
  a violation send it too). Connections are symmetric.
- *Join.* Two attempts, so that a late answer meets a retry; a third connection that
  is not the client's, and a lobby that two of the three fill. `MaxReplies` is more
  than the server can send.
- *Socket.* Three packets: one dropped, one received and one on its way; 31 bytes are
  more than the three need, at most 10 each. Among them is one that cannot be read and
  whose bytes look like the types of others, so that a parser that goes on after it would
  be seen. In the second setting the buffer is exactly one packet, so that the case of a
  full buffer is reached. Of datagrams, four arrivals of three: each order, a loss and a
  repetition. `maxQueue` stops the loop that the code does not: what it queues after the
  second turn is the first packet again.
- *Listener.* Three: one in each thread's hand and one in the vector. Every
  connection is made once, so nothing else needs a bound.
- *Connector.* Two attempts for a failure followed by a retry. `MaxReplies` bounds
  what the server sends; without it the inner loop, which does not look at the clock,
  can be kept busy for ever, and no property claims otherwise.
- *Lights.* Two sources share the texture while a third comes or goes; `MaxRetains` and
  `MaxListed` only bound repetition.
- *Map.* Width and height differ, every cell and every kind of tile occurs, and two
  layers are enough for repeated names and any order. `MapsetGid`, `ObjectsetGid`,
  `XCount`, `YCount` are those of `res/testmap.tmx`.

- *Game.* Two lights, so that one's shadows can reach the other; one tile, on either
  side of the lamp and the player and under them; a screen narrower than what the
  player can walk, so that the lamp leaves it. A unit of length is much more than the
  cache's threshold of 0.001, which is therefore 0 here. Everything else is bounded by
  the level.

Deadlock is not checked: games end. Connections run out, the connector is destroyed,
a map is loaded once, and memory corruption ends a behaviour.

Fairness. `Server`: the server thread and the listener thread are scheduled (weak
fairness), clients and the heap owe nothing. `Socket`: TCP delivers what was sent, and
the owner keeps polling, so that a call goes on as long as it can. `ConnectionListener`: both threads run, and a thread that
waits for the mutex gets it in the end (strong fairness): critical sections are a few
instructions, and between two of them the listener sleeps 100 ms and the server 40 ms.
Nobody is obliged to destroy the listener. `ServerConnector`: a call that was
made is executed and time passes; the server may stay silent. `Join`: both of these,
and TCP delivers. `GameLayer` has no liveness property: trutle's loop, which is
not part of the repository, decides what is called.

## 4. Proofs

Every theorem is about the specification the runs check, for every value of its
constants that satisfies the module's assumption. Each rests on an inductive
invariant that says more than the property; TLC checked each of them on the run's
instance before it was proved. The proofs of a step have one part for each action.

*Server* (any set of connections, any lobby size, any counter width):

- `ServerProofs!Typing`, `RosterSoundness`, `PlayerNumbersDiffer` prove `TypeOK`,
  `RosterSound` and `UniqueIds`. `RosterSound` needs `PlaceInv`: where `pc` says a join
  is under way there is a socket in hand that is nowhere else, a connection not made
  yet is nowhere, and the roster still has room, as `IsServerFull` said: nothing
  extends it in between. `UniqueIds` needs
  `SerialInv`: clients on the roster, and the one in hand, have different serials, none
  above `issued`; serials below `IdMod` do not collide modulo `IdMod`.
- `ResponseComesFirst` proves `ResponseFirst`. `TalkInv` follows what is
  queued and what is on the wire: nothing for a connection that has not been answered,
  for one on the roster its response first, and no response in any queue.
  `JoinsKeepBalance` uses its part about the team: the one told in the response is still
  the one `GetTeamForNextPlayer` would give when the client is pushed: nobody leaves the
  roster during a join.
- `FlushReachesEverybody` proves `FlushPassesNobody`, which is inductive once `RosterSound` and
  `TalkInv` are known: `KickClient` moves the index with the vector, and what it queues for
  the others is one more leave.
- `EveryViewAgrees` proves `ViewsAgree`. `ViewInv` says of each client what replaying
  its stream gives, sent part and queued part together, also while a join or a leave has
  been announced to some and not yet to others, and that no number in use has been
  announced as left; the lemmas before it say what one more
  packet does to a replay.

*PacketFactory, Socket* (bytes with any number of values, packets with any 32-bit members, any
number of them, any setting that satisfies the assumption), in `SocketProofs`:

- `Codec` says that a packet of a registered type is read back from what `Serialize` wrote,
  whatever bytes lie behind it and whatever is in memory nobody wrote; `WrittenIsReadBack`
  proves `RoundTrip` from it, the signed numbers with it. It rests on lemmas about what
  `FlattenSeq` computes for one sequence more (`FlattenAppend`, `FlattenConcat`), on the
  arithmetic of four bytes (`DwordBytes`, `ReadsDword`: dividing twice, and a remainder that
  stays below the base), and on the layout of each packet (`Layout`).
- `BytesAreKept`, `QueueHoldsSent` and `EndAfterAll` prove `NoByteLost`, `QueuedWasSent` and
  `DisconnectAfterAll`. None of them is inductive. `WholeInv` cuts what was sent in four: the
  first packets have been dropped, because one among them cannot be read (none is ever
  returned, as above); the bytes of the next are what is in the
  buffer, and `len` is their number; those of the next are the stream; the others are in
  flight, unless a reset took them. Only then is the head of the buffer always a whole packet,
  so that `Codec` says what the next turn of the loop makes of it. `BytesBound` is why the
  first `recv` takes all there is. `EndInv` says what a closed stream has left when the flag
  is set, whatever the setting.
- `OnlyWhatWasSent` proves `DatagramsIntact` from `DatagramInv`: every datagram, on its way or
  in the buffer, consists of the bytes of one packet that was sent.
- `ReadingNeverEnds` (`Spec => [](Reading => []Reading)`): the loop that has a packet to read
  never ends, over either protocol and whatever arrives in the meantime. `ReturnedAsSent` is
  false of the code (run `socket_length`), and has no theorem.

*ConnectionListener*: `Typing`, `GetNewSocketNeverNull` and `ListenerIsQueue` prove `TypeOK`,
`NeverNull` and the refinement `ImplementsQueue`. The invariant has three parts: who
holds the mutex at which line (`LockInv`), that the copy a thread took under the
mutex still is the vector (`ViewInv`), and that a thread's hand holds a socket exactly at
the lines where the code has one (`HandInv`). `AcceptSocket` maps to `Accept`, `Return` to
`HandOut`, every other step to a stutter.

*ServerConnector*: `Typing` and `ResultMatchesSockets` prove `TypeOK` and
`SocketsMatchResult`. The invariant says at each line of `ConnectToServer` which of the
two pointers are set, that they belong to the attempt under way, and that what they point
to has not been deleted (`CallInv`).

*Join*: two refinements, step by step. `ImplementsServer` (`JoinSpec => Spec`) and
`ImplementsConnector` (`JoinSpec => Connector!Spec`) show that the composition lets each
process do only what its own module says, so that the theorems above hold of it.
`ResponseIsReadFirst` and `ConnectedHasItsSeat` prove `AnswerComesFirst` and
`ConnectedIsSeated` from them. `ReadInv` says that an attempt that waits has taken nothing
out of its stream, and one that has connected exactly one packet, the server's first;
`OpenInv` that the client's connections close only with its process; `SeatInv` that
whoever was told it has joined is, while its end is open, on the roster or in hand.

*Lights* (any finite set of sources): `Typing`, `SharedTextureCounted`,
`CustomTexturesRetained`, `RadiusMatchesTexture`, `NoDanglingCaster` prove the five properties
of the run, which are inductive together with `FreshInv`: a source not yet made uses no
texture. The counts need that users come and go one by one; the lists need lemmas about
erasing at several indices (`RankOnto`: the ranks of the entries that are kept are exactly
the new indices).

*MapLoading* (maps of any size, any layers and objects): `ObstaclesAreWalls`, `DrawnInPlace`,
`LightsAreCircles` prove the three properties of the run. The first lemmas are the
arithmetic: the loop over `x` and `y` visits every tile once, the index of the template
is unique, flipping twice is the identity. `TemplateInv` says which entries of the template are
marked after each layer, `ObstacleInv` that casters and bodies cover the walls of the tiles
loaded so far. What the recursive `ParseDrawableLayer` computes is proved by induction over
the tiles: the smallest number of tiles for which it would be wrong is shown not to exist
(`NatMin`, from the well-foundedness of inclusion).

*ShadowCaster, Rendering, GameLayer* (a level, a screen and lights of any size):
`DrawingAsIntended` and `DrawingFromLiveMemory` need `FrameInv`, which gives the state of OpenGL
between any two drawing functions; the latter alone would not be inductive, since whether
an array is live depends on which ones are enabled. `NothingLeftInOpenGL` needs `OwnInv`: which
handles are set at which stage of loading. `PlayerFacesMouse` needs `AimInv`: which position
the camera, the player and the light had when they were last updated, in either order of the
updates. `LightsStopAtShadows` proves `LitUnlessShadowed` from `LightInv`: the vertices in the
cache are those of a position within the threshold, after `RenderShadows` the stencil holds
exactly what the caster hides from this light, and the lights already rendered stay right.
The geometry (`QuadCovers`, `MissedCaster`) is linear arithmetic. Doing this proof showed
that the property had been too strong for levels wider than 1000 pixels, which no run has:
`ShadowLayer` moves a shadow's far vertices a thousand times the distance between light and
caster away, so that the shadow of a light very close to a caster ends inside such a level;
`Outside` now says so.

Assumptions. Each module names its own, and TLC evaluates them on every run:
`ServerAssumption`, `ListenerAssumption`, `ConnectorAssumption`, `CasterAssumption` and
`RenderingAssumption` only give constants their types, and say that `NULL` is no connection;
`JoinAssumption`, that the client's attempts have connections of their own and that a
join request is among what a client may send first; `LightsAssumption`, that there are
finitely many sources; `MapAssumption`, that a layer has a tile for every cell, that
coordinates are whole numbers, and that `objectset` comes behind `mapset`;
`PacketFactoryAssumption`, that a byte can hold the types of packets; `SocketAssumption`, the
types of a setting's fields, and that the other end sends packets of this protocol;
`TrialsAssumption`, that the codec is tried on packets with a creator and on numbers of 32 bits.

Induction. What a recursive function computes (`ParseDrawableLayer`, the one in `FlattenSeq`)
is proved without an induction theorem that takes a predicate: the numbers for which a
statement holds are a set, and `SocketProofs!Induction` says that a set with 0 and, with each
number below `n`, the next, contains `n`; it follows from `NatMin`.

Only model-checked is liveness (`InTimeIsSeated`, `RequestInTimeAnswered`, `QueuesDrain`,
`CloseNoticed`, `DestructorReturns`, `EveryoneHandedOut`, `WaitEnds`), since the
prover handles neither fairness nor `ENABLED`. Every safety property and refinement that a
passing run checks is the subject of a theorem.

## 5. Defects met on the way that have no run

The models contain these as they are in the code; no property that would exclude
them is claimed.

- A packet that arrives in two segments is completed from unwritten memory
  (`Socket.cpp:121`); a first `recv` that fills the buffer makes `GetData` misplace
  what the second receives (`Socket.cpp:287`); `PACKET_PLAYER_DID_LEAVE` and
  `PACKET_SERVER_SHUTDOWN` have no creator, so a client discards them and what follows
  (`Protocol.cpp:80`). The properties about whole packets exclude them (`Whole`).
  `~Socket` closes nothing (`Socket.cpp:68`), and `SDLNet_TCP_Send` blocks when a client
  does not read (`Socket.cpp:169`). A UDP port that cannot be opened is dereferenced
  (`Socket.cpp:323`).
- A request that arrives just after its connection was taken up is never answered, and
  the connection never closed (`Server.cpp:99`). The attempts a client has given up
  keep their places on the roster until its process ends: in `Join` one client can fill
  the lobby by itself.
- A throwing `SocketTCP` leaks the datagram socket
  (`Client.cpp:46`); the response is read after it was deleted (`Client.cpp:81`); a
  `NULL` packet is dereferenced (`Client.cpp:72`).
- `DeleteSharedTexture` leaves the static pointer (`LightSource.cpp:130`);
  `RemoveLightSource` goes by the length of the other list (`ShadowLayer.cpp:43`);
  replaced textures are not released (`LightSource.cpp:167`, `283`).
- The texture row is computed with the wrong count (`MapParser.cpp:135`); wall and
  ventilation categories are exchanged (`MapLoader.cpp:71`).
- `ShouldDrawLight` uses a quarter of a light's rectangle (`ShadowLayer.cpp:239`): a light
  to the left of or below the screen disappears while half of it should be seen. The far
  vertices of a shadow are not moved to the light (`ShadowLayer.cpp:159`), which bends
  it a little towards the origin, and all the way from a light on a caster's edge.
  `LightSource.h:11` says the shared texture is "scaled & colored"; it is drawn in white
  (`LightSource.cpp:259`).
- `MapLayer::Render` leaves its arrays enabled: shadows or debug shapes with more
  vertices than the layer read beyond its buffer (`ReadsAstray`). A layer whose buffers
  could not be made is drawn from address 0 (`MapLayer.cpp:131`). `GetAABB` of a caster
  without a rectangle reads an empty vector (`ShadowCaster.cpp:44`).
- A `Shader` that throws leaves what it has created, and `ShadowLayer` its texture
  (`Shader.cpp:14`). `~Player` uses a body that went with the world
  (`GameLayer.cpp:74`). The player's velocity is multiplied by the frame's duration and
  then integrated over a fixed step (`Player.cpp:43`). In the very first frame the
  player may aim from the corner of the screen (`GameLayer.cpp:81`).

## 6. Not modelled

Sending as bytes (a partial or blocking `SDLNet_TCP_Send` is a choice of success or
failure); descriptors (nothing closes them); the second axis, angles other than left and
right, and floating-point rounding; the values of colours and uniforms; the vertices of
debug shapes and of the light's own texture; log output; `GetRemoteHostname` and the
other getters that only return a member; `main` functions. trutle, SDL_net, Box2D,
OpenGL and TmxParser are external: their effects are modelled from how the code uses
them. `gtest/`, nine tenths of the repository's C++, is third-party code that only the
test harness links.

## 7. Plan

No safety property is left to prove. What could be added is a second axis in `ShadowCaster` and
`Rendering`. Once `packetlen` is stored in the code, `ReadPacket` here should report it: then
`pc = "spin"` goes from `Server` and `ServerConnector`, `ReturnedAsSent` can move to the passing
run, and that everything sent is returned in the end becomes a property worth checking.
