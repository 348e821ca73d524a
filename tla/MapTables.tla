------------------------------ MODULE MapTables ------------------------------
(***************************************************************************)
(* How a mapping becomes the tables that the kernel reads: genmap and      *)
(* mapping.py build it by the calls of the platform script and of one      *)
(* script for each application, check it and write map.bin (cbin);         *)
(* xml_parser.c writes the same file from an XML description; boot.c and   *)
(* sys_handler.c find in it the clusters, segments, tasks and peripherals. *)
(*                                                                         *)
(* In map.bin, all the objects of a type are in one table, an object is    *)
(* known by its index there, and those of a cluster or of a vspace by the  *)
(* index of the first one and their number. mapping.py computes an index   *)
(* from the order of the calls, and writes the table in the order of the   *)
(* clusters and of the vspaces: cbin must refuse the mapping when the two  *)
(* differ. The platform scripts are not in the repository. genmap runs the *)
(* scripts one after the other; here the calls of some of them are mixed,  *)
(* as those of one script that builds several clusters or vspaces may be.  *)
(*                                                                         *)
(* Addresses, lengths and argument words are opaque, except where a check  *)
(* compares them.                                                          *)
(***************************************************************************)
EXTENDS Integers, SequencesExt

CONSTANTS XSize, YSize,   \* clusters in a row and in a column
          NbProcs,        \* processors per cluster, at most
          RamBase,        \* offset and size of the RAM in every cluster
          RamDisk,        \* use_ramdisk
          Scripts,        \* the scripts: sequences of calls, some of them optional
          Mixes           \* the sets of scripts whose calls may be mixed

NbClusters == XSize * YSize
MapAssumption == NbClusters \in Nat \ {0} /\ NbProcs \in Nat

VARIABLES mixed,      \* scripts that are mixed
          pos,        \* calls that each script has made
          clusters,   \* [psegs, procs, periphs] of each cluster
          globs,      \* global vsegs
          vspaces,    \* [index, name, start, active, vsegs, tasks]
          total,      \* objects of each type so far
          exit,       \* "running", "ok", "error"
          bin,        \* the tables in map.bin
          events,     \* what is left of the XML description
          at,         \* functions of xml_parser.c that are active
          xbin        \* the tables that xml_parser.c has built

generator == <<mixed, pos, clusters, globs, vspaces, total>>
parser == <<events, at, xbin>>
vars == <<generator, exit, bin, parser>>

-----------------------------------------------------------------------------
(* Types. genmap stores the position of a name in its lists; xml_parser.c  *)
(* and the kernel have the values of mapping_info.h and irq_handler.h.     *)

PERIPHTYPES == << "CMA", "DMA", "FBF", "IOB", "IOC", "MMC", "MWR", "NIC", "ROM", "SIM",
                  "TIM", "TTY", "XCU", "PIC", "DROM" >>
IOCSUBTYPES == << "BDV", "HBA", "SDC", "SPI" >>
MWRSUBTYPES == << "GCD", "DCT", "CPY" >>
ISRTYPES == << "ISR_DEFAULT", "ISR_TICK", "ISR_TTY_RX", "ISR_TTY_TX", "ISR_BDV",
               "ISR_TIMER", "ISR_WAKUP", "ISR_NIC_RX", "ISR_NIC_TX", "ISR_CMA",
               "ISR_MMC", "ISR_DMA", "ISR_SDC", "ISR_MWR", "ISR_HBA", "ISR_SPI" >>
VSEGTYPES == << "ELF", "BLOB", "PTAB", "PERI", "BUFFER", "SCHED", "HEAP" >>
PSEGTYPES == << "RAM", "PERI" >>

Number(list, name) == (CHOOSE i \in DOMAIN list : list[i] = name) - 1

periphTypes == [CMA |-> 0, DMA |-> 1, FBF |-> 2, IOB |-> 3, IOC |-> 4, MMC |-> 5,
                MWR |-> 6, NIC |-> 7, ROM |-> 8, SIM |-> 9, TIM |-> 10, TTY |-> 11,
                XCU |-> 12, PIC |-> 13, DROM |-> 14]
mwrTypes == [GCD |-> 0, DCT |-> 1, CPY |-> 2]
isr_type_t == [ISR_DEFAULT |-> 0, ISR_TICK |-> 1, ISR_TTY_RX |-> 2, ISR_TTY_TX |-> 3,
               ISR_BDV |-> 4, ISR_TIMER |-> 5, ISR_WAKUP |-> 6, ISR_NIC_RX |-> 7,
               ISR_NIC_TX |-> 8, ISR_CMA |-> 9, ISR_MMC |-> 10, ISR_DMA |-> 11,
               ISR_SDC |-> 12, ISR_MWR |-> 13, ISR_HBA |-> 14]
vsegType == [ELF |-> 0, BLOB |-> 1, PTAB |-> 2, PERI |-> 3, BUFFER |-> 4, SCHED |-> 5,
             HEAP |-> 6]
psegType == [RAM |-> 0, PERI |-> 2]

\* xml_parser.c tests "SIM" twice and never "TIM".
ParsedPeriphs == (DOMAIN periphTypes) \ {"TIM"}

-----------------------------------------------------------------------------
(* The calls of the scripts                                                *)

ClusterIds == 0 .. NbClusters - 1
ClusterId(c) == c[1] * YSize + c[2]
InMesh(c) == c[1] < XSize /\ c[2] < YSize

NoObjects == [pseg |-> 0, proc |-> 0, periph |-> 0, irq |-> 0, vspace |-> 0, vseg |-> 0,
              task |-> 0, global |-> 0]
EmptyTables ==
  [globals |-> 0, cluster |-> <<>>, pseg |-> <<>>, vspace |-> <<>>, vseg |-> <<>>,
   task |-> <<>>, proc |-> <<>>, irq |-> <<>>, periph |-> <<>>]

Init ==
  /\ mixed \in Mixes
  /\ pos = [f \in DOMAIN Scripts |-> 0]
  /\ clusters = [i \in ClusterIds |-> [psegs |-> <<>>, procs |-> <<>>, periphs |-> <<>>]]
  /\ globs = <<>>
  /\ vspaces = <<>>
  /\ total = NoObjects
  /\ exit = "running"
  /\ bin = EmptyTables
  /\ events = <<>> /\ at = <<"none">> /\ xbin = EmptyTables

Finished(f) == pos[f] = Len(Scripts[f])
ScriptsDone == \A f \in DOMAIN Scripts : Finished(f)
Runs(f) ==
  /\ exit = "running" /\ ~Finished(f)
  /\ \A g \in 1 .. f - 1 : Finished(g) \/ {f, g} \subseteq mixed
Call(f) == Scripts[f][pos[f] + 1]
Calls(f, op) == Runs(f) /\ Call(f).op = op
Return(f) == pos' = [pos EXCEPT ![f] = @ + 1] /\ UNCHANGED <<mixed, exit, bin, parser>>
Count(type) == total' = [total EXCEPT ![type] = @ + 1]

\* A failed assertion, or an explicit error, ends genmap.
Refuse == exit' = "error" /\ UNCHANGED <<generator, bin, parser>>

\* A script may make an optional call or not, when none are mixed.
Skip(f) ==
  /\ mixed = {} /\ Runs(f) /\ Call(f).optional
  /\ Return(f) /\ UNCHANGED <<clusters, globs, vspaces, total>>

Pseg(name, type) == [index |-> total.pseg, name |-> name, type |-> type]

addRam(f) ==
  /\ Calls(f, "addRam")
  /\ LET c == Call(f)
     IN IF ~InMesh(c.xy) \/ c.base # RamBase THEN Refuse
        ELSE /\ clusters' = [clusters EXCEPT ![ClusterId(c.xy)].psegs =
                               Append(@, Pseg(c.name, "RAM"))]
             /\ Count("pseg") /\ Return(f) /\ UNCHANGED <<globs, vspaces>>

addPeriph(f) ==
  /\ Calls(f, "addPeriph")
  /\ LET c == Call(f)
         known == /\ c.type \in Range(PERIPHTYPES)
                  /\ c.type = "IOC" => c.subtype \in Range(IOCSUBTYPES)
                  /\ c.type = "MWR" => c.subtype \in Range(MWRSUBTYPES)
     IN IF ~InMesh(c.xy) \/ ~known THEN Refuse
        ELSE /\ clusters' = [clusters EXCEPT
                  ![ClusterId(c.xy)].psegs = Append(@, Pseg(c.name, "PERI")),
                  ![ClusterId(c.xy)].periphs =
                    Append(@, [index |-> total.periph, type |-> c.type,
                               subtype |-> c.subtype, pseg |-> c.name,
                               psegid |-> total.pseg, irqs |-> <<>>, ctrl |-> <<>>])]
             /\ total' = [total EXCEPT !.pseg = @ + 1, !.periph = @ + 1]
             /\ Return(f) /\ UNCHANGED <<globs, vspaces>>

\* A peripheral is what an earlier addPeriph returned: <<cluster, rank>>.
Periph(r) == clusters[ClusterId(r[1])].periphs[r[2]]
IsPeriph(r) == r[2] <= Len(clusters[ClusterId(r[1])].periphs)

addIrq(f) ==
  /\ Calls(f, "addIrq")
  /\ LET c == Call(f)
     IN IF \/ ~IsPeriph(c.periph) \/ ~IsPeriph(c.src)
           \/ c.isr \notin Range(ISRTYPES)
           \/ Periph(c.src).ctrl \notin {<<>>, c.periph}
        THEN Refuse
        ELSE /\ clusters' = [clusters EXCEPT
                  ![ClusterId(c.periph[1])].periphs[c.periph[2]].irqs =
                    Append(@, [index |-> total.irq, srcid |-> c.srcid, isr |-> c.isr]),
                  ![ClusterId(c.src[1])].periphs[c.src[2]].ctrl = c.periph]
             /\ Count("irq") /\ Return(f) /\ UNCHANGED <<globs, vspaces>>

addProc(f) ==
  /\ Calls(f, "addProc")
  /\ LET c == Call(f)
     IN IF ~InMesh(c.xy) THEN Refuse
        ELSE /\ clusters' = [clusters EXCEPT ![ClusterId(c.xy)].procs =
                               Append(@, [index |-> total.proc, lpid |-> c.lpid])]
             /\ Count("proc") /\ Return(f) /\ UNCHANGED <<globs, vspaces>>

Vseg(c) ==
  [index |-> total.vseg, name |-> c.name, vbase |-> c.vbase, length |-> c.length,
   type |-> c.type, xy |-> c.xy, pseg |-> c.pseg, ident |-> c.ident]

Overlap(v, w) == v.vbase + v.length > w.vbase /\ w.vbase + w.length > v.vbase

\* The copies of a replicated vseg have the same first 15 characters (stem).
addGlobal(f) ==
  /\ Calls(f, "addGlobal")
  /\ LET c == Call(f)
         clash == \E i \in DOMAIN globs : Overlap(globs[i], c) /\ globs[i].stem # c.stem
     IN IF clash \/ c.type \notin Range(VSEGTYPES) THEN Refuse
        ELSE /\ globs' = Append(globs, [stem |-> c.stem] @@ Vseg(c))
             /\ total' = [total EXCEPT !.vseg = @ + 1, !.global = @ + 1]
             /\ Return(f) /\ UNCHANGED <<clusters, vspaces>>

addVspace(f) ==
  /\ Calls(f, "addVspace")
  /\ vspaces' = Append(vspaces, [index |-> total.vspace, name |-> Call(f).name,
                                 start |-> Call(f).start, vsegs |-> <<>>, tasks |-> <<>>])
  /\ Count("vspace") /\ Return(f) /\ UNCHANGED <<clusters, globs>>

\* The vspace that the script created.
SpaceOf(c) == {v \in DOMAIN vspaces : vspaces[v].name = c.vspace}

addVseg(f) ==
  /\ Calls(f, "addVseg")
  /\ LET c == Call(f)
     IN IF ~InMesh(c.xy) \/ c.type \notin Range(VSEGTYPES) \/ SpaceOf(c) = {} THEN Refuse
        ELSE /\ vspaces' = [v \in DOMAIN vspaces |->
                  IF v \notin SpaceOf(c) THEN vspaces[v]
                  ELSE [vspaces[v] EXCEPT !.vsegs = Append(@, Vseg(c))]]
             /\ Count("vseg") /\ Return(f) /\ UNCHANGED <<clusters, globs>>

addTask(f) ==
  /\ Calls(f, "addTask")
  /\ LET c == Call(f)
         task == [index |-> total.task, name |-> c.name, xy |-> c.xy, lpid |-> c.lpid,
                  stack |-> c.stack, heap |-> c.heap]
     IN IF ~InMesh(c.xy) \/ c.lpid >= NbProcs \/ SpaceOf(c) = {} THEN Refuse
        ELSE /\ vspaces' = [v \in DOMAIN vspaces |->
                  IF v \notin SpaceOf(c) THEN vspaces[v]
                  ELSE [vspaces[v] EXCEPT !.tasks = Append(@, task)]]
             /\ Count("task") /\ Return(f) /\ UNCHANGED <<clusters, globs>>

-----------------------------------------------------------------------------
(* genmap: the tables, and the constants of the compilation                *)

ByCluster(Part(_)) == FlattenSeq([i \in 1 .. NbClusters |-> Part(clusters[i - 1])])
Psegs == ByCluster(LAMBDA c : c.psegs)
Processors == ByCluster(LAMBDA c : c.procs)
Periphs == ByCluster(LAMBDA c : c.periphs)
Irqs == FlattenSeq([i \in DOMAIN Periphs |-> Periphs[i].irqs])
Vsegs == globs \o FlattenSeq([v \in DOMAIN vspaces |-> vspaces[v].vsegs])
Tasks == FlattenSeq([v \in DOMAIN vspaces |-> vspaces[v].tasks])

Ordered(s) == \A i \in DOMAIN s : s[i].index = i - 1
Named(s, name) == {i \in DOMAIN s : s[i].name = name}
IndexOfLast(s, name) == s[Max(Named(s, name))].index
FirstIndex(s) == IF s = <<>> THEN 0 ELSE s[1].index

ClusterBin(i) ==
  LET c == clusters[i - 1]
  IN [x |-> (i - 1) \div YSize, y |-> (i - 1) % YSize,
      psegs |-> Len(c.psegs), pseg_offset |-> FirstIndex(c.psegs),
      procs |-> Len(c.procs), proc_offset |-> FirstIndex(c.procs),
      periphs |-> Len(c.periphs), periph_offset |-> FirstIndex(c.periphs)]

PsegBin(i, p) ==
  [name |-> p.name, type |-> Number(PSEGTYPES, p.type),
   clusterid |-> CHOOSE c \in ClusterIds : \E k \in DOMAIN clusters[c].psegs :
                   clusters[c].psegs[k] = p]

VspaceFound(v) == Named(v.vsegs, v.start) # {} /\ v.tasks # <<>>
VspaceBin(v) ==
  [name |-> v.name, start_vseg_id |-> IndexOfLast(v.vsegs, v.start),
   vsegs |-> Len(v.vsegs), vseg_offset |-> v.vsegs[1].index,
   tasks |-> Len(v.tasks), task_offset |-> v.tasks[1].index]

VsegFound(v) == Named(clusters[ClusterId(v.xy)].psegs, v.pseg) # {}
VsegBin(v) ==
  [name |-> v.name, vbase |-> v.vbase, length |-> v.length,
   psegid |-> IndexOfLast(clusters[ClusterId(v.xy)].psegs, v.pseg),
   type |-> Number(VSEGTYPES, v.type), ident |-> v.ident]

TaskFound(v, t) ==
  Named(v.vsegs, t.stack) # {} /\ (t.heap = "" \/ Named(v.vsegs, t.heap) # {})
TaskBin(v, t) ==
  [name |-> t.name, clusterid |-> ClusterId(t.xy), proclocid |-> t.lpid,
   stack_vseg_id |-> IndexOfLast(v.vsegs, t.stack),
   heap_vseg_id |-> IF t.heap = "" THEN 0 ELSE IndexOfLast(v.vsegs, t.heap)]

IrqBin(q) == [srcid |-> q.srcid, isr |-> Number(ISRTYPES, q.isr)]

PeriphBin(p) ==
  [type |-> Number(PERIPHTYPES, p.type),
   subtype |-> CASE p.type = "IOC" -> Number(IOCSUBTYPES, p.subtype)
                 [] p.type = "MWR" -> Number(MWRSUBTYPES, p.subtype)
                 [] OTHER -> -1,
   psegid |-> p.psegid, irqs |-> Len(p.irqs), irq_offset |-> FirstIndex(p.irqs)]

\* Faulty variant: nothing compares the index of a vseg with its place.
CbinUnchecked ==
  /\ Ordered(Psegs) /\ Ordered(Processors) /\ Ordered(Periphs) /\ Ordered(Irqs)
  /\ Ordered(Tasks)
  /\ \A v \in DOMAIN vspaces :
       /\ VspaceFound(vspaces[v])
       /\ \A k \in DOMAIN vspaces[v].tasks : TaskFound(vspaces[v], vspaces[v].tasks[k])
  /\ \A i \in DOMAIN Vsegs : VsegFound(Vsegs[i])

\* The "check index" of each class, and the names that must be found.
CbinAccepts ==
  /\ \A s \in {Psegs, Processors, Periphs, Irqs, Vsegs, Tasks, vspaces} : Ordered(s)
  /\ \A v \in DOMAIN vspaces :
       /\ VspaceFound(vspaces[v])
       /\ \A k \in DOMAIN vspaces[v].tasks : TaskFound(vspaces[v], vspaces[v].tasks[k])
  /\ \A i \in DOMAIN Vsegs : VsegFound(Vsegs[i])

Cbin ==
  [globals |-> total.global,
   cluster |-> [i \in 1 .. NbClusters |-> ClusterBin(i)],
   pseg |-> [i \in DOMAIN Psegs |-> PsegBin(i, Psegs[i])],
   vspace |-> [v \in DOMAIN vspaces |-> VspaceBin(vspaces[v])],
   vseg |-> [i \in DOMAIN Vsegs |-> VsegBin(Vsegs[i])],
   task |-> FlattenSeq([v \in DOMAIN vspaces |->
              [k \in DOMAIN vspaces[v].tasks |-> TaskBin(vspaces[v], vspaces[v].tasks[k])]]),
   proc |-> [i \in DOMAIN Processors |-> [index |-> Processors[i].lpid]],
   irq |-> [i \in DOMAIN Irqs |-> IrqBin(Irqs[i])],
   periph |-> [i \in DOMAIN Periphs |-> PeriphBin(Periphs[i])]]

OfType(type) == SelectSeq(Periphs, LAMBDA p : p.type = type)
Subtypes(type) == {OfType(type)[i].subtype : i \in DOMAIN OfType(type)}
HasGlobal(name) == \E i \in DOMAIN globs : globs[i].name = name
HasIdent(name) == HasGlobal(name) /\ globs[Max(Named(globs, name))].ident

hard_config ==
  /\ \A type \in {"FBF", "CMA", "IOC", "NIC", "TIM", "TTY", "PIC"} : Len(OfType(type)) <= 2
  /\ Cardinality(Subtypes("IOC")) + (IF RamDisk THEN 1 ELSE 0) = 1
  /\ OfType("MWR") # <<>> => Cardinality(Subtypes("MWR")) = 1
  /\ \A name \in {"seg_boot_mapping", "seg_boot_code", "seg_boot_data",
                  "seg_boot_stack"} : HasIdent(name)
  /\ RamDisk => HasGlobal("seg_ramdisk")

\* Compared on a prefix of the name.
giet_vsegs ==
  \A stem \in {"seg_boot_code", "seg_boot_data", "seg_kernel_data", "seg_kernel_code",
               "seg_kernel_init"} : \E i \in DOMAIN globs : globs[i].stem = stem

\* Both files are written by genmap, after the last script.
Generate ==
  /\ exit = "running" /\ ScriptsDone
  /\ IF CbinAccepts /\ hard_config /\ giet_vsegs
     THEN exit' = "ok" /\ bin' = Cbin
     ELSE exit' = "error" /\ UNCHANGED bin
  /\ UNCHANGED <<generator, parser>>

-----------------------------------------------------------------------------
(* The XML description. An element is a record, ev is "start", "end" or    *)
(* "empty" (<.../>); of the attributes, those that the tables relate to    *)
(* others.                                                                 *)

Tag(ev, tag) == [ev |-> ev, tag |-> tag]
PsegTag(name, ram) == [ev |-> "empty", tag |-> "pseg", name |-> name, ram |-> ram]
ProcTag(lpid) == [ev |-> "empty", tag |-> "proc", index |-> lpid]
PeriphTag(ev, type, subtype, pseg) ==
  [ev |-> ev, tag |-> "periph", type |-> type, subtype |-> subtype, pseg |-> pseg]
IrqTag(srcid, isr) == [ev |-> "empty", tag |-> "irq", srcid |-> srcid, isr |-> isr]
VsegTag(name, vbase, length, type, xy, pseg, ident) ==
  [ev |-> "empty", tag |-> "vseg", name |-> name, vbase |-> vbase, length |-> length,
   type |-> type, xy |-> xy, pseg |-> pseg, ident |-> ident]
VspaceTag(name, start) ==
  [ev |-> "start", tag |-> "vspace", name |-> name, start |-> start]
TaskTag(name, xy, lpid, stack, heap) ==
  [ev |-> "empty", tag |-> "task", name |-> name, xy |-> xy, lpid |-> lpid,
   stack |-> stack, heap |-> heap]

Map(Op(_), s) == [i \in DOMAIN s |-> Op(s[i])]
Element(tag, content) == <<Tag("start", tag)>> \o content \o <<Tag("end", tag)>>
ElementOf(start, content) == <<start>> \o content \o <<Tag("end", start.tag)>>

Subtype(p) == IF p.type = "MWR" THEN p.subtype ELSE "NONE"
HasEnd(p) == p.type \in {"PIC", "XCU"}

\* A peripheral with an end tag, and as Periph.xml writes it.
PeriphElement(p) ==
  ElementOf(PeriphTag("start", p.type, Subtype(p), p.pseg),
            Map(LAMBDA q : IrqTag(q.srcid, q.isr), p.irqs))
PeriphXml(p) ==
  IF HasEnd(p) THEN PeriphElement(p)
               ELSE <<PeriphTag("empty", p.type, Subtype(p), p.pseg)>>

ClusterXml(c, periphs) ==
  Element("cluster",
    Map(LAMBDA p : PsegTag(p.name, p.type = "RAM"), c.psegs)
      \o Map(LAMBDA p : ProcTag(p.lpid), c.procs)
      \o FlattenSeq(periphs))
VsegXml(v) == VsegTag(v.name, v.vbase, v.length, v.type, v.xy, v.pseg, v.ident)
TaskXml(t) == TaskTag(t.name, t.xy, t.lpid, t.stack, t.heap)
VspaceXml(v) ==
  ElementOf(VspaceTag(v.name, v.start), Map(VsegXml, v.vsegs) \o Map(TaskXml, v.tasks))

\* The mapping, with the elements of the peripherals of each cluster.
Document(periphs) ==
  Element("mapping_info",
    Element("clusterset", FlattenSeq([i \in 1 .. NbClusters |->
              ClusterXml(clusters[i - 1], periphs[i - 1])]))
      \o Element("globalset", Map(VsegXml, globs))
      \o Element("vspaceset", FlattenSeq(Map(VspaceXml, vspaces))))

\* The file that Mapping.xml writes.
Xml == Document([c \in ClusterIds |-> Map(PeriphXml, clusters[c].periphs)])

-----------------------------------------------------------------------------
(* xml_parser.c: each function reads the elements until it returns. The    *)
(* index of the object under construction is the length of its table.      *)

Read == events' = Tail(events)
Top == at[Len(at)]
Reads(f) == events # <<>> /\ Top = f
Sees(ev, tag) == Head(events).ev = ev /\ Head(events).tag = tag
Enter(f) == at' = Append(at, f)
Leave == at' = Front(at)
Keep == UNCHANGED <<generator, exit, bin>>
Error == at' = <<"error">> /\ UNCHANGED xbin /\ Read /\ Keep

ParseXml ==
  /\ at = <<"none">> /\ exit # "running" /\ ScriptsDone
  /\ events' = Xml
  /\ at' = <<"main">>
  /\ UNCHANGED xbin /\ Keep

headerNode ==
  \/ Reads("main") /\ Enter("mapping_info") /\ UNCHANGED xbin /\ Read /\ Keep
  \/ /\ Reads("mapping_info") /\ Head(events).ev = "start"
     /\ Enter(Head(events).tag) /\ UNCHANGED xbin /\ Read /\ Keep
  \/ /\ Reads("mapping_info") /\ Head(events).ev = "end"
     /\ at' = <<"built">> /\ UNCHANGED xbin /\ Read /\ Keep

clusterSetNode ==
  /\ Reads("clusterset")
  /\ \/ Sees("end", "clusterset")
        /\ IF Len(xbin.cluster) # NbClusters THEN Error
           ELSE Leave /\ UNCHANGED xbin /\ Read /\ Keep
     \/ /\ Sees("start", "cluster")
        /\ Enter("cluster") /\ Read /\ Keep
        /\ xbin' = [xbin EXCEPT !.cluster = Append(@,
             [x |-> Len(xbin.cluster) \div YSize, y |-> Len(xbin.cluster) % YSize,
              psegs |-> 0, pseg_offset |-> Len(xbin.pseg),
              procs |-> 0, proc_offset |-> Len(xbin.proc),
              periphs |-> 0, periph_offset |-> Len(xbin.periph)])]

This == Len(xbin.cluster)

psegNode ==
  /\ Reads("cluster") /\ Sees("empty", "pseg")
  /\ xbin' = [xbin EXCEPT
       !.pseg = Append(@, [name |-> Head(events).name, clusterid |-> This - 1,
                           type |-> IF Head(events).ram THEN psegType.RAM
                                                        ELSE psegType.PERI]),
       !.cluster[This].psegs = @ + 1]
  /\ UNCHANGED at /\ Read /\ Keep

\* The index of a processor must be its rank in the cluster.
procNode ==
  /\ Reads("cluster") /\ Sees("empty", "proc")
  /\ IF Head(events).index # xbin.cluster[This].procs THEN Error
     ELSE /\ xbin' = [xbin EXCEPT !.proc = Append(@, [index |-> Head(events).index]),
                                  !.cluster[This].procs = @ + 1]
          /\ UNCHANGED at /\ Read /\ Keep

\* Faulty variant: getPsegId searches the name in all the clusters.
PsegsAnywhere(i, name) == {k \in DOMAIN xbin.pseg : xbin.pseg[k].name = name}

\* getPsegId, in the cluster of index i: the first one of that name.
PsegsNamed(i, name) ==
  {k \in DOMAIN xbin.pseg : xbin.pseg[k].clusterid = i /\ xbin.pseg[k].name = name}
getPsegId(i, name) == Min(PsegsNamed(i, name)) - 1

\* Up to the elements of the peripheral. It is the same for an empty element, which
\* has none, and no end tag either.
periphNode ==
  /\ Reads("cluster") /\ Head(events).tag = "periph" /\ Head(events).ev # "end"
  /\ LET e == Head(events)
     IN IF e.type \notin ParsedPeriphs \/ PsegsNamed(This - 1, e.pseg) = {} THEN Error
        ELSE /\ xbin' = [xbin EXCEPT !.periph = Append(@,
                  [type |-> periphTypes[e.type],
                   subtype |-> IF e.type = "MWR" THEN mwrTypes[e.subtype] ELSE -1,
                   psegid |-> getPsegId(This - 1, e.pseg),
                   irqs |-> 0, irq_offset |-> Len(xbin.irq)])]
             /\ Enter("periph") /\ Read /\ Keep

irqNode ==
  /\ Reads("periph") /\ Sees("empty", "irq")
  /\ LET e == Head(events)
         p == Len(xbin.periph)
     IN IF \/ xbin.periph[p].type \notin {periphTypes["XCU"], periphTypes["PIC"]}
           \/ e.isr \notin DOMAIN isr_type_t
        THEN Error
        ELSE /\ xbin' = [xbin EXCEPT
                  !.irq = Append(@, [srcid |-> e.srcid, isr |-> isr_type_t[e.isr]]),
                  !.periph[p].irqs = @ + 1]
             /\ UNCHANGED at /\ Read /\ Keep

\* Any tag of a peripheral ends the one that is open, be it the start of the next.
PeriphEnd ==
  /\ Reads("periph") /\ Head(events).tag # "irq"
  /\ IF Head(events).tag # "periph" THEN Error
     ELSE xbin' = [xbin EXCEPT !.cluster[This].periphs = @ + 1] /\ Leave /\ Read /\ Keep

\* What it does not know is ignored in a cluster, and so is the end of a peripheral
\* the start of which has been taken for the end of another one.
clusterNode ==
  /\ Reads("cluster")
  /\ Head(events).tag \notin {"pseg", "proc", "periph"} \/ Sees("end", "periph")
  /\ IF Sees("end", "cluster") THEN Leave ELSE UNCHANGED at
  /\ UNCHANGED xbin /\ Read /\ Keep

VsegOk(e) == InMesh(e.xy) /\ PsegsNamed(ClusterId(e.xy), e.pseg) # {}
VsegOf(e) ==
  [name |-> e.name, vbase |-> e.vbase, length |-> e.length,
   psegid |-> getPsegId(ClusterId(e.xy), e.pseg), type |-> vsegType[e.type],
   ident |-> e.ident]

globalSetNode ==
  /\ Reads("globalset")
  /\ LET e == Head(events)
     IN IF Sees("end", "globalset") THEN Leave /\ UNCHANGED xbin /\ Read /\ Keep
        ELSE IF ~VsegOk(e) THEN Error
        ELSE /\ xbin' = [xbin EXCEPT !.vseg = Append(@, VsegOf(e)), !.globals = @ + 1]
             /\ UNCHANGED at /\ Read /\ Keep

Space == Len(xbin.vspace)

vspaceSetNode ==
  /\ Reads("vspaceset")
  /\ IF Sees("end", "vspaceset") THEN Leave /\ UNCHANGED xbin
     ELSE /\ Enter("vspace")
          /\ xbin' = [xbin EXCEPT !.vspace = Append(@,
               [name |-> Head(events).name, start_vseg_id |-> Head(events).start,
                vsegs |-> 0, vseg_offset |-> Len(xbin.vseg),
                tasks |-> 0, task_offset |-> Len(xbin.task)])]
  /\ Read /\ Keep

\* getVsegId: the first vseg of that name in the current vspace.
Segs == xbin.vspace[Space].vseg_offset + 1
          .. xbin.vspace[Space].vseg_offset + xbin.vspace[Space].vsegs
VsegsNamed(name) == {k \in Segs : xbin.vseg[k].name = name}
getVsegId(name) == Min(VsegsNamed(name)) - 1

vsegNode ==
  /\ Reads("vspace") /\ Sees("empty", "vseg")
  /\ IF ~VsegOk(Head(events)) THEN Error
     ELSE /\ xbin' = [xbin EXCEPT !.vseg = Append(@, VsegOf(Head(events))),
                                  !.vspace[Space].vsegs = @ + 1]
          /\ UNCHANGED at /\ Read /\ Keep

taskNode ==
  /\ Reads("vspace") /\ Sees("empty", "task")
  /\ LET e == Head(events)
     IN IF \/ ~InMesh(e.xy)
           \/ e.lpid >= xbin.cluster[ClusterId(e.xy) + 1].procs
           \/ VsegsNamed(e.stack) = {} \/ VsegsNamed(e.heap) = {}
        THEN Error
        ELSE /\ xbin' = [xbin EXCEPT
                  !.task = Append(@, [name |-> e.name, clusterid |-> ClusterId(e.xy),
                                      proclocid |-> e.lpid,
                                      stack_vseg_id |-> getVsegId(e.stack),
                                      heap_vseg_id |-> getVsegId(e.heap)]),
                  !.vspace[Space].tasks = @ + 1]
             /\ UNCHANGED at /\ Read /\ Keep

vspaceNode ==
  /\ Reads("vspace") /\ Sees("end", "vspace")
  /\ LET start == xbin.vspace[Space].start_vseg_id
     IN IF VsegsNamed(start) = {} THEN Error
        ELSE /\ xbin' = [xbin EXCEPT !.vspace[Space].start_vseg_id = getVsegId(start)]
             /\ Leave /\ Read /\ Keep

Parsed == at = <<"built">>

Next ==
  \/ \E f \in DOMAIN Scripts :
       \/ Skip(f) \/ addRam(f) \/ addPeriph(f) \/ addIrq(f) \/ addProc(f)
       \/ addGlobal(f) \/ addVspace(f) \/ addVseg(f) \/ addTask(f)
  \/ Generate \/ ParseXml
  \/ headerNode \/ clusterSetNode \/ clusterNode \/ psegNode \/ procNode
  \/ periphNode \/ irqNode \/ PeriphEnd \/ globalSetNode \/ vspaceSetNode
  \/ vspaceNode \/ vsegNode \/ taskNode
  \/ at \in {<<"built">>, <<"error">>} /\ UNCHANGED vars
  \/ exit = "error" /\ ~ScriptsDone /\ UNCHANGED vars

Spec == Init /\ [][Next]_vars

-----------------------------------------------------------------------------
(* What the others find in the tables                                      *)

\* The objects of a cluster or of a vspace: a first index and a number.
Part(table, offset, size) == [k \in 1 .. size |-> table[offset + k]]
PsegsOf(t, c) == Part(t.pseg, t.cluster[c].pseg_offset, t.cluster[c].psegs)
ProcsOf(t, c) == Part(t.proc, t.cluster[c].proc_offset, t.cluster[c].procs)
PeriphsOf(t, c) == Part(t.periph, t.cluster[c].periph_offset, t.cluster[c].periphs)
VsegsOf(t, v) == Part(t.vseg, t.vspace[v].vseg_offset, t.vspace[v].vsegs)
TasksOf(t, v) == Part(t.task, t.vspace[v].task_offset, t.vspace[v].tasks)

XyOf(t, c) == <<t.cluster[c + 1].x, t.cluster[c + 1].y>>

\* buildXml, the clusters: a processor is written with its rank, the peripherals other than XCU and PIC have no IRQ.
Controllers == {Number(PERIPHTYPES, "XCU"), Number(PERIPHTYPES, "PIC")}
ReadPeriph(t, p) ==
  ElementOf(PeriphTag("start", PERIPHTYPES[p.type + 1],
                      IF PERIPHTYPES[p.type + 1] = "MWR" THEN MWRSUBTYPES[p.subtype + 1]
                                                         ELSE "NONE",
                      t.pseg[p.psegid + 1].name),
            IF p.type \notin Controllers THEN <<>>
            ELSE Map(LAMBDA q : IrqTag(q.srcid, ISRTYPES[q.isr + 1]),
                     Part(t.irq, p.irq_offset, p.irqs)))
ReadCluster(t, c) ==
  Element("cluster",
    Map(LAMBDA p : PsegTag(p.name, p.type = psegType.RAM), PsegsOf(t, c))
      \o [k \in DOMAIN ProcsOf(t, c) |-> ProcTag(k - 1)]
      \o FlattenSeq(Map(LAMBDA p : ReadPeriph(t, p), PeriphsOf(t, c))))

ReadVseg(t, v) ==
  LET p == t.pseg[v.psegid + 1]
  IN VsegTag(v.name, v.vbase, v.length, VSEGTYPES[v.type + 1], XyOf(t, p.clusterid),
             p.name, v.ident)
ReadTask(t, k) ==
  TaskTag(k.name, XyOf(t, k.clusterid), k.proclocid,
          t.vseg[k.stack_vseg_id + 1].name, t.vseg[k.heap_vseg_id + 1].name)
ReadVspace(t, v) ==
  ElementOf(VspaceTag(t.vspace[v].name, t.vseg[t.vspace[v].start_vseg_id + 1].name),
            Map(LAMBDA s : ReadVseg(t, s), VsegsOf(t, v))
              \o Map(LAMBDA k : ReadTask(t, k), TasksOf(t, v)))

\* buildXml: the description that bin2xml finds in the tables (its vsegs have no end).
buildXml(t) ==
  Element("mapping_info",
    Element("clusterset", FlattenSeq([c \in DOMAIN t.cluster |-> ReadCluster(t, c)]))
      \o Element("globalset", Map(LAMBDA s : ReadVseg(t, s), Part(t.vseg, 0, t.globals)))
      \o Element("vspaceset", FlattenSeq([v \in DOMAIN t.vspace |-> ReadVspace(t, v)])))

-----------------------------------------------------------------------------
(* Lookups of the kernel (a result is -1 when nothing is found)            *)

LeastOf(S) == IF S = {} THEN -1 ELSE Min(S)

\* The place of the first vseg of that name, in the vspaces of that name.
FindVseg(t, vspace, name) ==
  LeastOf({k \in DOMAIN t.vseg : t.vseg[k].name = name
            /\ \E v \in DOMAIN t.vspace : t.vspace[v].name = vspace
                 /\ k - t.vspace[v].vseg_offset \in 1 .. t.vspace[v].vsegs})
_sys_vseg_get_vbase(t, vspace, name) ==
  LET k == FindVseg(t, vspace, name) IN IF k = -1 THEN -1 ELSE t.vseg[k].vbase
_sys_vseg_get_length(t, vspace, name) ==
  LET k == FindVseg(t, vspace, name) IN IF k = -1 THEN -1 ELSE t.vseg[k].length

\* The heap of the first task of vspace v in cluster c, where each has a heap.
_sys_heap_info(t, v, c) ==
  LET k == LeastOf({i \in 1 .. t.vspace[v].tasks : TasksOf(t, v)[i].clusterid = c})
  IN IF k = -1 THEN -1 ELSE t.vseg[TasksOf(t, v)[k].heap_vseg_id + 1].vbase

\* The coprocessor that _sys_coproc_alloc finds in cluster c.
_sys_coproc_alloc(t, c, coproc_type) ==
  LeastOf({i \in DOMAIN PeriphsOf(t, c + 1) :
            /\ PeriphsOf(t, c + 1)[i].type = periphTypes["MWR"]
            /\ PeriphsOf(t, c + 1)[i].subtype = coproc_type})

-----------------------------------------------------------------------------
(* Properties                                                              *)

\* A task without heap has heap number 0 in map.bin.
SameTag(a, b) ==
  \/ a = b
  \/ a.tag = "task" /\ a.heap = "" /\ b = [a EXCEPT !.heap = b.heap]

\* What a reader finds of the peripherals of each cluster: all of them, or those that are
\* left when one without end tag makes the parser take the start of the next for it.
All == [c \in ClusterIds |-> clusters[c].periphs]
LeftOf(periphs) ==
  LET kept[k \in DOMAIN periphs] == k = 1 \/ ~kept[k - 1] \/ HasEnd(periphs[k - 1])
  IN FoldLeftDomain(LAMBDA left, k : IF kept[k] THEN Append(left, periphs[k]) ELSE left,
                    <<>>, periphs)
Left == [c \in ClusterIds |-> LeftOf(clusters[c].periphs)]

\* The tables t hold the mapping that the scripts have built: every object but the
\* peripherals that are lost, in its cluster or vspace, with the objects that it names.
Describes(t, periphs) ==
  LET found == buildXml(t)
      mapping == Document([c \in ClusterIds |-> Map(PeriphElement, periphs[c])])
  IN Len(found) = Len(mapping) /\ \A i \in DOMAIN mapping : SameTag(mapping[i], found[i])

\* The lookups by name, by cluster or by type give what the scripts asked for.
Unique(s, name) == Cardinality(Named(s, name)) = 1
HeapsIn(v, c) == {k \in DOMAIN v.tasks : ClusterId(v.tasks[k].xy) = c}
LookupsFind(t, periphs) ==
  /\ \A c \in ClusterIds :
       Map(LAMBDA p : p.index, ProcsOf(t, c + 1))
         = Map(LAMBDA p : p.lpid, clusters[c].procs)
  /\ \A v \in DOMAIN vspaces :
       \A s \in Range(vspaces[v].vsegs) :
         Unique(vspaces, vspaces[v].name) /\ Unique(vspaces[v].vsegs, s.name) =>
           /\ _sys_vseg_get_vbase(t, vspaces[v].name, s.name) = s.vbase
           /\ _sys_vseg_get_length(t, vspaces[v].name, s.name) = s.length
  /\ \A v \in DOMAIN vspaces, c \in ClusterIds :
       LET placed == HeapsIn(vspaces[v], c)
           found == _sys_heap_info(t, v, c)
       IN /\ placed = {} => found = -1
          /\ (\A k \in placed : vspaces[v].tasks[k].heap # "") =>
               \/ placed = {}
               \/ \E s \in Range(vspaces[v].vsegs) :
                    s.name = vspaces[v].tasks[Min(placed)].heap /\ s.vbase = found
  /\ \A c \in ClusterIds, type \in DOMAIN mwrTypes :
       (_sys_coproc_alloc(t, c, mwrTypes[type]) # -1)
         <=> \E p \in Range(periphs[c]) : p.type = "MWR" /\ p.subtype = type

\* The mapping that the kernel reads through offsets and indices is the one that the
\* scripts have described, whatever the order of their calls, or no mapping at all
\* (Mapping.cbin).
GeneratedSound == exit = "ok" => Describes(bin, All) /\ LookupsFind(bin, All)

\* xml_parser.c finds the names by itself. It makes an error of a cluster the last
\* peripheral of which it reads without end tag; otherwise its tables are those of the
\* mapping without the peripherals that it has taken for end tags: their interrupts
\* are lost with them, and the kernel does not find a coprocessor among them.
ParsedSound == Parsed => Describes(xbin, Left) /\ LookupsFind(xbin, Left)

=============================================================================
