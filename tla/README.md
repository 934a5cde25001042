# solidserver-mcp: a verification development

solidserver-mcp is an MCP server in Go that lets a language model manage a
SOLIDserver DDI appliance (IPAM, DHCP, DNS, VLAN) through about forty tools. The
server keeps no data: every tool call reads and writes the appliance through HTTP
requests. What must be right is therefore not a data structure but a protocol:

* the **guardrails** (read-only mode, protected spaces, zones and subnets) must
  hold although a tool often names a row only by an id or a start address, looks
  the row up in one request and changes it in another;
* a **retry transport** repeats requests that may already have run, under one
  deadline and one rate limiter shared by all calls;
* a **Unix socket server** must leave the socket's name in a usable state through
  crashes, failed starts, signals and successors.

The modules here model these parts, the lookups of the DHCP, DNS and VLAN tools among
them, and the functions they rest on; TLC checks them on small instances, and TLAPS
proves safety properties for all values of the constants. Paths and line numbers refer
to the repository next to this directory.

## 1. Inventory

| Component | State | Operations | Talks to | What makes it correct |
| --- | --- | --- | --- | --- |
| Guardrails (`tools/guardrails.go`) | the configuration, fixed at start | `CheckReadOnly`, `CheckProtectedSpace/Zone/Range/Subnet/SubnetCIDR` | called by every mutating handler | each guard decides exactly whether something protected is touched; no valid spelling of a prefix falls open |
| IPAM address tools (`tools/ipam_tools.go`) | none; rows on the appliance | `ip_create` (with or without an address), `ip_delete`, `ip_update`, `ip_list`, `ip_find_free` | guardrails; appliance, one or two requests | a check on rows read back still holds when the mutation runs |
| Subnet and space tools (`tools/subnet_tools.go`) | as above | `subnet_create/delete/update`, `space_create/delete`, `subnet_info`, lists | guardrails; appliance | as above; the extent before *and* after a resize; every network at a start address |
| Retry transport (`services/retry.go`, `services/client.go`) | per call: attempt, response; shared: limiter | `RoundTrip`, `waitRetry`, `calculateBackoff` | under every request | every call ends; bounded repetition; no response body leaked; retries count against the rate cap; backoff within its bound |
| Unix socket server (`server.go`, `socket_unix.go`) | socket file, listener, two goroutines, signal context | `runUnix`, `listenUnixSocket`, `bindUnixSocket`, `serveHTTP` | file system, signals, other processes | reachable while serving, no litter, foreign files that were there before kept, signals obeyed |
| DHCP tools (`tools/dhcp_tools.go`) | none | scopes, ranges, reservations, shared networks, groups | guardrails; appliance | as the subnet tools; an extent computed in machine integers never comes out smaller; an incomplete lookup refuses |
| DNS tools (`tools/dns_tools.go`) | none | records and zones | `CheckProtectedZone`; appliance | the zone of a record named by id is looked up, and the one it moves to is checked as well |
| VLAN tools (`tools/vlan_tools.go`) | none | domains and VLANs | read-only guard only | read-only mode freezes them |
| List tools (`tools/tools.go`) | none | `clampLimit`, `commonListHandler`, `CombineWhereClause` | appliance | a walk along `next_offset` misses nothing and ends; a caller's filter only narrows the tool's |
| Validation (`tools/validation.go`) | none | pure checks, `where`-clause scanner | every handler | what it accepts is what guards and appliance understand |
| Configuration, startup (`config.go`, `main.go`) | configuration | parsing, once; a server is stopped and started with another one | all | what starts runs with what was set |
| Errors and fencing, resources, prompts | none | text | client | formatting only |
| Doctor (`services/doctor.go`) | none | read-only probes in order | appliance | stops at the first failing layer |

Hard behaviours: any number of calls at once on the http and unix transports; a
check and its use in separate requests (every lookup-then-mutate handler); requests
that run although their answer is lost, run again, or run after their call has been
cancelled; mutations that outlive the server that sent them; lookups that return part of
the rows, or rows without a column; lists that change while they are read; integers that
wrap; deadlines racing answers; processes sharing one file name. PROJECT.json lists them
as hazards, each at its line, with the properties that would catch it.

## 2. Modules

| Module | Models | Composes |
| --- | --- | --- |
| `Guardrails` | the guards of `guardrails.go`, `canonicalCIDR`, `ValidateSubnetPrefix`; what a guard is for (`Fenced`, `SpaceProtected`) | |
| `NetipLine` | the prefix arithmetic of `net/netip` on a small line, for the TLC runs | |
| `IpamTools` | the mutating IPAM, subnet and space tools, concurrent, with the appliance and administrators as environment | `Guardrails` |
| `FencedInventory` | the abstract promise of the protection lists | instantiated by `IpamTools` and `DnsTools` |
| `ToolCalls` | calls, requests on their way and restarts, as the next three share them | |
| `DhcpExtents` | the addresses a scope's row spans | |
| `DhcpTools` | the mutating DHCP tools | `Guardrails`, `ToolCalls`, `DhcpExtents` |
| `DnsTools` | the mutating DNS tools, `CheckProtectedZone` | `ToolCalls` |
| `VlanTools` | the mutating VLAN tools | `ToolCalls` |
| `ToolServer` | one server with all three, its restarts and administrators | `DhcpTools`, `DnsTools`, `VlanTools` |
| `RetryTransport` | `RoundTrip` of concurrent calls with deadline, limiter, network and appliance | |
| `RemoteCall` | the abstract at-least-once call the tools rely on | instantiated by `RetryTransport` |
| `Backoff` | `calculateBackoff`, `parseRetryAfter` in 64 bits | |
| `UnixServer` | the socket file's life over several processes | |
| `ListPaging` | a caller that walks along `next_offset` while the list changes | |
| `SubnetResolve` | the network `subnet_info` finds for a CIDR | `Guardrails` |
| `WhereClause` | the clause scanner, escaping, joining | |
| `Startup` | `LoadConfig`, and the transport made of its settings | |
| `PureFunctions` | the pure functions against what they promise, one state per input | `DhcpExtents`, `Backoff`, `SubnetResolve` (with `Guardrails`), `Startup`, `WhereClause` |
| `MCFunctions` | its inputs for TLC | `PureFunctions`, `NetipLine` |
| `MCIpam`, `MCDhcp`, `MCDns`, `MCToolServer`, `MCListPaging` | instances for TLC | the module of that name |
| `*_proofs` | theorems about the module of that name; `ToolServer_proofs` has those about `DhcpTools` too | TLAPS |

### Guardrails

IPv4 and IPv6 addresses lie on one line, IPv4 below IPv6, in the order of
`netip.Addr.Compare`. A block `a/n` is given by the constants `First[a][n]` and
`Last[a][n]`; the assumption `PrefixTree` says what is needed of them (a block
contains its address, blocks of one length partition a family, longer prefixes
refine). A string given to a guard is a record of an address and a length; `NoAddr`
stands for an empty or unparseable string, a length the family lacks for one
`ParsePrefix` rejects. Addresses are taken in their canonical spelling: whether two
spellings of one address compare equal in `strings.EqualFold` is not modelled.

### IpamTools

A call goes `idle -> [lookup ->] send -> wait -> idle`. Each handler is one action
for the part before its first request (`ipCreate`, `subnetDelete`, ...), with the
guards and validations in the code's order, and one for a lookup and what is
concluded from it (`findFirstFreeIP`, `applyIPUpdateProtections`,
`applySubnetDeleteExtentProtection`, `applySubnetUpdateProtections`). A lookup may
find columns missing (`Seen`), as the nil checks in the handlers allow. A call
refused before its first request changes nothing and is no step.

`Send` puts the mutation on the `wire`, and may do so again while the call waits:
that is what `RoundTrip` does, and `KeepsContract` is the statement of it that
`IpamTools` uses. `Return` ends a call at any time, with the mutation still on the
wire; `Drop` loses one. So a mutation runs late, twice or not at all.

The appliance is external; the assumptions taken about it are: row ids are not
reused; space names are matched without case, like the guards do; an addition that
would make two addresses or two networks of one space coincide is rejected; a resize keeps the block that
holds the start address; deleting a network takes the addresses inside and maybe
networks nested in it; deleting a space takes everything inside (the tool's own
description, `subnet_tools.go:182-186`). `Administration` changes rows by other
means when `OutOfBand` is TRUE.

### ToolCalls, DhcpTools, DnsTools, VlanTools, ToolServer

The protocol of `IpamTools` once more, stated once in `ToolCalls`: `Enter` (the checks
before the first request), `Pass` (a lookup and what is concluded from it), `Send` (again
and again, as `RoundTrip` does), `Return`, `Execute`. `Restart` forgets every call and
chooses guardrails anew; what is on the wire stays there. A refused call is no step.

`DhcpTools`: only read-only mode and protected subnets guard these tools. A scope is
deleted by its network address, a shared network or group by its name, so the rows a
delete reaches are looked up, if there are protected subnets. `Pages` gives what one page
may hold: all matching rows when they are fewer than the page, else any full page of
them. `runDhcpScopeExtentQuery` refuses a page that reaches `maxListLimit`; each row left
may lack a column (`ColumnsOf`), and its extent is computed by `scopeRowExtent` of
`DhcpExtents`: from the size, else from the mask, with the end from `ipv4AddrPlus`, whose
wrapping arithmetic must reject whatever leaves IPv4. `PageCap` is the appliance's own bound on a page.
An external assumption: several scopes may share an address; deleting one takes its ranges.

`DnsTools`: `Fold` is the trimming, dot-stripping and lower-casing that both the guard and
the appliance do. `dns_record_update` checks the zone its input names, looks the record's
own zone up if there are protected zones, and refuses when it comes back empty. The
appliance decides which view is meant when a request names none. Record ids are not reused.

`VlanTools`: read-only mode and `ValidateVlanID`.

`ToolServer` runs the three with shared calls and guardrails; `ServerNext` has one disjunct
for each set of tools with the rows of the others unchanged, and one for `Restart`.

### ListPaging

`listOutput` is the second half of `commonListHandler`: `has_more` when the page holds at
least the clamped limit, `next_offset` left out beyond `int32`. The appliance cuts pages at
the limit or at `PageCap`, or ignores the limit (`Overfills`). Rows are numbered in the
list's order; up to `MaxChanges` come or go during the walk. `reread` and `removed` count
what the properties compare.

### Functions: Backoff, SubnetResolve, WhereClause, Startup

Operators without state, translated branch by branch. Nondeterminism of the code is a set of
results: the jitter, a page of a lookup, the conversion of a float that is no int.
`Backoff`: durations are integers of `-MaxInt64 - 1 .. MaxInt64`, `Truncated` is a product's
low bits. `SubnetResolve`: `MaxComputable` stands for the 63 host bits beyond which
`expectedNetworkSize` gives up. `WhereClause`: characters are the five the scanner tells
apart and one for all others. `Startup`: a variable is unset, malformed or holds a value;
a result that fails is the empty set, so `LoadConfig` is the set of the records its parts
allow. `PureFunctions` puts an input in the state, of one of six families, and states of each
function what its callers count on as an invariant of these states; the values the families
range over are constants, small in `MCFunctions` and any in the proofs. `turns` of
`WhereClause` gives the scanner's state after each turn of its loop; it and the other loops
over characters are recursive functions on a clause's length.

### RetryTransport

One action per place where `RoundTrip` waits or decides: `RoundTrip` (reading the
body), `BackoffOver`/`BackoffCancelled` (the select of `waitRetry`, either ready case),
`LimiterGrants`/`LimiterRefuses`, `Attempt`, `NotSent`/`AttemptCancelled`/
`ConnectionFails` (an attempt that errs), `Response`. The deadline of `http.Client`
covers all attempts; an expired deadline is a timeout and so a retryable error,
which the code then meets again in the next backoff or limiter wait: all these ways
are there. `bodies[c]` records the responses whose body is open. `Runs`, `RunsNot`
and `LostAnswer` are the appliance and the network. `net/http` itself repeats only
requests it never wrote, or idempotent ones, so for a mutation it adds nothing. How
long a wait lasts is `Backoff`.

### UnixServer

Each process has a main goroutine (`main`) from `os.Stat` to the deferred
`os.Remove`, and the goroutine that runs `Serve` (`serve`). `path` is what has the
name: nothing, another file, or some process's socket. `Close` of a
`net.UnixListener` and `os.Remove` unlink by name. `Crash` leaves the file and closes
the listener. `overlapped` records whether a process was ever started while another ran.

## 3. Runs

| Run | Instance | Shows |
| --- | --- | --- |
| `functions` | 359,000 inputs of six families, one state each, described below | `RangeGuardExact`, `CIDRGuardExact`, `AddrGuardExact`; `ExtentExact`; `WaitBounded`, `WaitHonoured`; `NoOtherFound`, `NothingGuessed`, `BlockFound`; `ValuesKept`, `ClausesNested`; `StartsAsSet`, `AttemptsMade`, `FirstRequestPasses` |
| `ipam_calls` | 2 calls, 18 inputs of the address, subnet and space tools; 3 network ids and 2 address ids; one network encloses the protected subnet, one is its neighbour; a protected and an open space with the same addresses | `Inv`, `ProtectedUntouched`, refinement of `FencedInventory` |
| `ipam_admin` | 1 call and an administrator who may place any row anywhere; with subnets and spaces protected, spaces only, or read-only | `ProtectedUntouched`, `ReadOnlyFreezes` |
| `ipam_space_loss` | instance of `ipam_calls` | violation: see Findings |
| `dhcp` | 2 calls, 17 inputs of all DHCP tools; 2 servers with scopes at the same address, one protected in part; a shared network of three scopes against pages of two; both families | `Inv`, `ProtectedUntouched` |
| `dhcp_page_cap` | 1 call, pages of one | violation: see Findings |
| `dns` | 2 calls, all DNS tools, zones in two views, three spellings | `Inv`, `ProtectedUntouched`, refinement of `FencedInventory` |
| `tool_server` | 1 call at a time of the DHCP, DNS and VLAN tools; restarts, read-only or not; administrators | `ServerInv`, `GuardsHold` |
| `retry_transport` | 2 calls, 3 attempts each, bucket of 2, 2 refills | `Inv` (with `RunsAccounted`), `NoBodyLeaked`, `RateCapped`, refinement of `RemoteCall` with its liveness |
| `unix_server` | 3 processes, overlapping or not | `SequentialInv`, `Reachable`, `StartsAfresh`, `NoLitter`, `ForeignFileKept`, `SignalStops` |
| `unix_stale` | 2 overlapping processes | violation: see Findings |
| `list_paging` | 5 rows, limits below and above the largest, offsets up to the largest `int32` (3), 3 changes, pages cut at 2 or overfilled | `NothingOverlooked`, `NothingRepeated`, `OnlyFirstRefused`, `WalkEnds` |

**The inputs of `functions`.** Guards: 4 IPv4 and 8 IPv6 addresses, all queries, all 31
non-empty lists of five entries (host bits, a length IPv4 lacks, a bare address, IPv6).
Extents: every row, with or without columns, over 3-bit addresses and counts that
exceed them. Waits: int64 as -64..63, so that seconds and shifts wrap, every header.
Lookups by CIDR: up to three networks of three spaces at one address, sized or not, a page of
two, and a family whose largest blocks have no computable size. Clauses: all
values of up to two and all clauses of up to four characters. Starts: every environment
that differs from a working one in two variables, with ints of -4..3. The functions
branch on comparisons with a handful of boundaries and the inputs lie on both sides
of each.

**Bounds and why they are enough.** `MaxInFlight = 1`: with two calls a mutation of
a call that has returned is still on the wire while both calls check and wait, so
every pair of a pending mutation and a conflicting one occurs; the proofs have no
bound. Row ids: enough for each interesting row and one fresh one; ids are given out
once, so behaviours end when they are used up. That, or an administrator having
removed every row, is a real end, and `ipam_admin` does not check deadlock for it.
`tool_server` has one call at a time because `dhcp` and `dns` have two: what it adds is
the mutation that outlives its call, its server and the state of the rows it was checked
against. `maxListLimit = 2` with a shared network of three scopes makes a full page and a
cut-off one; `PageCap = 3` is an appliance that does not cut below the limit.
`MaxRefills`: only counts tokens a behaviour may gain; with a bucket of two and six
attempts wanted, retries run dry. In `ListPaging` a walk needs at most five pages, and
three changes are enough to remove a row on each side of a page border and add one.
In the runs of `RetryTransport`, `UnixServer` and `ListPaging` each call, process or walk
runs once, and behaviours end when all have: deadlock is not checked there.

**Fairness.** `RetryTransport`: weak fairness of a call's own goroutine steps (the
Go scheduler) and of its deadline (`http.Client.Timeout` is always positive,
`client.go:90-98`). None of the appliance, the network or the limiter's clock: calls
end although nothing ever answers. `UnixServer`: weak fairness of the main goroutine;
`Drained` is included because `Shutdown` has a deadline (`shutdownTimeout`). None of
signals, crashes or serve errors. `ListPaging`: weak fairness of `commonListHandler`
(a call ends, which is what `retry_transport` shows) and of the caller's own steps: a walk
that is given up is no walk. The tools claim safety only.

**Why `raced`.** A check made before an administrator's change says nothing about the
row afterwards, and one made against the guardrails of an earlier server says nothing
about those in force; the server cannot know. `raced` is TRUE from an administrator's
step, or a restart, taken while a checked mutation is pending until none is.
`ProtectedUntouched` and `GuardsHold` claim nothing for steps in between; without the
exemption TLC finds a mutation that was overtaken. `ReadOnlyFreezes` of `IpamTools`,
which has no restarts, needs no exemption.

## 4. Findings

1. *space_delete passes the subnet list* (`ipam_space_loss`, `subnet_tools.go:742`).
   README.md:139-143 and 172 promise that the subnet list refuses mutations; deleting
   an unlisted space deletes its networks, protected subnets included, after a check
   of the space's name only. `FencedInventory` states the promise the code does keep.
2. *The "stale" socket may be live* (`unix_stale`, `server.go:269`). The comment says
   a stale socket of a previous run is removed; any socket is, so a second server
   on the same path disconnects the first, and the first's deferred removal unlinks
   the second's socket. `Reachable` is therefore claimed until servers overlap.
3. *A page cut short by the appliance is taken for all rows* (`dhcp_page_cap`,
   `dhcp_tools.go:1240`). `tools.go:318-320` says an appliance may cap pages below the
   limit asked for; on such a one the member scopes past the page are not checked,
   although `dhcp_tools.go:323-325` promises the members are.

Observations that follow from the definitions and that no run is spent on:

* `resolveSubnetIDByCIDR` compares the size of a lone row only when the size can be
  computed (`subnet_tools.go:267`): for a prefix with more than 63 host bits a network of
  any size at that address is accepted, which the comment at 263-266 rules out.
  A lone row that tells no size is accepted as well. `FindsNoOther`, and with it
  `NoOtherFound`, excepts both cases.
* `ValidateWhereClause` accepts a clause that ends in a lone backslash
  (`validation.go:539`); joined, it escapes the closing parenthesis. `UserClauseNested`
  leaves such a clause out.
* `parseCommaList` keeps a mistyped entry of `SOLIDSERVER_PROTECTED_SUBNETS`
  (`config.go:270`) and every guard skips it (`guardrails.go:74-77`), while README.md:178-182
  says a malformed value is rejected at startup. `LoadConfig` of `Startup` has the entry.
* A rate of 2^63 or more has no int for its burst (`client.go:77-80`), which may then be
  negative. `LimiterLetsPass`, and with it `FirstRequestPasses`, excepts such rates.
* `listenUnixSocket` looks at the file and removes it in two calls (`server.go:264-269`), and
  the removals after a bind look at nothing (`server.go:243`, `socket_unix.go:33`): a file that takes the socket's place
  while a server runs may be lost. `PlaceFile`, and with it `ForeignFileKept`, is about files
  that are there before a server starts.

## 5. Proofs

All are checked by TLAPS without unproved steps; they use the named assumptions on
the constants (`PrefixTree`, `LineAssumption`, `NameAssumption`, ...), which TLC
evaluates in the runs.

* `Guardrails_proofs`: `RangeGuardIsExact` (two endpoints and one first address decide
  whether an interval meets a block) and lemmas on each guard: an address, a range
  or a block the guard lets pass is not `Fenced`. They rest on `PrefixTree`.
* `IpamTools_proofs`: the inductive invariant is `Inv`, three parts. `TypeOK`.
  `EntryInv`: what the checks on the *input* establish; it mentions no row, so no step
  can undo it. `VerifyInv`: what the checks on *rows read back* establish, restated
  about the rows as they are now: the rows a pending mutation will reach are not
  protected, whatever they have become. That is stronger than what the handler read,
  and it is what makes the induction go through: any other call's mutation is itself
  checked, so it only places unprotected rows, and a resize stays within the block
  checked or one checked in turn. For `subnet_update` that includes "a resize of what
  the row is now stays clear", preserved because the resized row and the old one
  share a block of the prefix tree. Then `Invariance`, `Protection`
  (`ProtectedUntouched` from `Inv`), `ReadOnlyHolds` (`Entered` says the server was not
  read-only), and `Refinement` (`FencedInventory` when `OutOfBand = FALSE`: every step
  stutters or is one `Appear` or `Lose`, since the deletion of a space empties what it holds).
* `RetryTransport_proofs`: `RetrySafety`, from `LoopInv`: no body is open while a call
  waits, and tokens taken by calls that have not sent yet (`Sending`) count as used.
  `RateRespected` follows from it too. `RunsAreAccounted`, the other half of `Inv`:
  what the appliance ran of a call plus what is still on the wire is at most the attempts
  begun. Counting the two together is what makes it inductive: `Runs` moves one from the
  wire to `runs`, a loss or a refusal only takes one off, and an attempt puts one on the
  wire that was not there. `Refinement` follows: there is always room for one run more
  while a request is on its way (`RoomForARun`), so each step is `Begin`, `Run` or `End` of
  `RemoteCall` or a stutter. This is what the wire of the tools' models stands for.
  `LoopIsBounded`: each step of a call's loop lowers `StepsLeft`, at most five for every
  attempt it may make, and nothing else raises it.
* `DnsTools_proofs`: `Invariance`, `Protection`, `ReadOnlyHolds` over `Spec`, that is with
  restarts and administrators, and `Refinement` over `CallsSpec`. The invariant has the
  form of the one of `IpamTools`. What an earlier server left on the wire passed
  other guardrails; all that is known of it is that it names a zone, which is the
  second conjunct of `EntryInv`. `RowStep` says what a checked mutation may do to a row,
  whichever row it is; `VerifiedIsKept` shows that no such step spoils another call's check.
* `ToolServer_proofs`, first part: `DhcpInvariance`, `DhcpProtection`, `DhcpCalls`. The
  invariant of `DhcpTools` has the same three parts; what is new is that `VerifyInv` rests on
  arithmetic and on pages. `ExtentIsTheScope`: whatever columns a row lacks, the extent that
  `scopeRowExtent` computes, if it computes one, is the scope's (`MaskGivesLength` for rows
  without a size). `ShortPageIsAll`: a page below `maxListLimit` has every matching row. The
  latter holds of an appliance that does not bound pages below the limit asked for, so these
  theorems have the hypothesis `PageCap >= maxListLimit`; it is no assumption of the
  module, since the run `dhcp_page_cap` is about an appliance without it, and
  `MembersAreRefused` says that the property refuted there then holds.
* `ToolServer_proofs`, second part: `ServerInvariance` and `ServerGuardsHold`. `ServerInv` is
  the two invariants over the requests of all families. It is preserved because a family's
  steps leave the rows of the others alone (`FamiliesAreApart`) while `Checked` holds requests
  of every family: each family's lemma is stated for any set of requests that
  contains its own. What `DnsTools_proofs` shows is taken from there by instantiation,
  `P == INSTANCE DnsTools_proofs`, and `SameNames` to `SameAppliance` say that `P` and `Dns`
  mean the same.
* `PureFunctions_proofs`: all fourteen properties of the run `functions`, for every
  address line, width, table of networks, environment and length of a clause. `RangesExact`, `BlocksExact`,
  `AddrsExact`: each guard refuses exactly what it should (`ClearBlockPasses`: blocks of a
  prefix tree that are not nested share no address). `ExtentsExact` with wrapping
  arithmetic: an offset that passes the check of `ipv4AddrPlus` is at most `MaxIPv4`, so the
  sum stays below `Wrap` and is rejected exactly when it leaves IPv4 (`LastAddressExact`). `WaitsBounded` and
  `WaitsHonoured` with wrapping int64: `Truncated` only enters as "some int64", and what
  is not positive is ignored and the rest capped. `NoOther`, `NoGuess`, `BlocksFound`: the rows
  left of a page after the two filters are the blocks asked for, and one is left only if it is
  the only one (`OnlyOne`). `StartedAsSet`, `EveryRequestSent`, `EveryLimiterPasses`: no
  accepted number of retries wraps into a client that makes no attempt, and no rate below
  the largest int into a limiter that has no token (`IntsWrap`).
* `PureFunctions_proofs`, where clauses: `EveryFilterKept` and `EveryClauseNested`, by
  induction over the characters. `EveryNat` is that induction for a set in place of a
  predicate, from the well-foundedness of the strict subset order on finite sets; `RunExists`
  says that a function defined from its value one turn earlier exists, so the scanner's
  `turns`, the replacements and the reading back of a value are runs (`TurnsAreARun`,
  `ReplacedIsARun`, `ReadBackIsARun`). The invariant of a value: `EscapeWhereValue` makes one or two characters of each of its
  characters (`IsCut`, `EscapeIsCut`), and after each such piece the scanner is back inside
  the literal, no escape open (`InsideLiteral`). It cannot be stated character by character: in
  the middle of a piece an escape is open. The invariant of a caller's clause: after k of its
  characters the scanner of the whole is where the scanner of the clause alone is, one
  parenthesis deeper (`Ahead`), as long as the latter has not failed (`NeverFailed`).
* `ListPaging_proofs`: `NextAccepted`, because an offset handed out is between 0 and
  `MaxInt32`. `RowsComeOnce` and `RowsAreMet` are about lists of any length. A row's rank
  is the number of rows before it. A row received again, or one overlooked, must have crossed
  the offset the walk is at, and `CountInv` counts those that have: with `Ahead` the rows
  received that are again ahead of the walk, `reread + |Ahead|` is at most the rows added,
  since an insertion moves at most one row across an offset (`AddMoves`) and a page takes the
  rows it repeats out of `Ahead`; with `Behind` the rows not received that the walk has passed,
  `|Behind|` is at most the first offset and the rows removed (`RemoveMoves`). No induction
  over the list is needed: that ranks are distinct and bounded, and that a page holds the ranks
  from its offset on, follows from the cardinality theorems for finite sets. `WalkIsBounded`:
  an offset handed out lies past one that was below the list's length (`WithinList`), so
  each step of a walk lowers `StepsLeft`, at most `2 * Cardinality(Rows) + 3`, whatever is
  added or removed meanwhile.
* `UnixServer_proofs`: `SequentialInvariance`, `Sequential`, `Afresh` from `SequentialInv`
  (until servers overlap, at most one process runs, and a listener owns the name), `Tidy`
  and `ForeignFile` for overlapping servers too. `NoStageTwice`: each step of a main goroutine
  lowers `StagesLeft` and nothing takes a signal back.

Only model-checked:

* Liveness (`KeepsContract` beyond its safety part, `SignalStops`, `WalkEnds`): fairness and
  ENABLED are out of the prover's reach. `LoopIsBounded`, `NoStageTwice` and `WalkIsBounded`
  are the safety half of the argument, for all values of the constants: a measure that no
  step raises and each step of the call, server or walk itself lowers. That such a step can
  be taken until the end is what TLC adds on the instances of the runs.

## 6. What is left

1. Extents of a lookup that returns one page (`subnet_tools.go:648`): `IpamTools` takes a
   lookup's rows as complete.
2. The other half of the liveness properties, that a call, server or walk that has not
   ended can take its next step: it needs ENABLED.

Not modelled, and why:

* Logging and PII redaction, error and fence formatting, resources and prompts: texts;
  they keep no state and decide nothing.
* `RunDoctor`: a fixed sequence of probes with early exits that reads and reports; a model
  would restate its `if` statements.
* The format checks of `validation.go` other than those named above: each looks at one
  string and keeps nothing; the models take validated inputs.
* TLS, the MCP SDK, the stdio loop, the TCP listener: the SDK's and the standard library's.
* The Windows socket: `UnixServer` without `Chmod`.
* `rules/`: input of a linter, no part of the program.
