------------------------------ MODULE ElfTables ------------------------------
(***************************************************************************)
(* sec.c: locate_tables reads the symbol table and its strings out of the  *)
(* host's executable, section header by section header; find_functions     *)
(* then looks every symbol up in ptrs.  The loops for 32 and 64 bit files  *)
(* do the same; one pass of a loop is one step.                            *)
(***************************************************************************)
EXTENDS Integers, Sequences, FiniteSets

CONSTANTS
  Names,        \* the names of symbols, those of ptrs among them
  Ptrs,         \* the names in ptrs, in their order: a sequence
  Files,        \* the executables: sequences of sections, the first index 0
  NULL

Symbol == [name : Names \cup {NULL}, func : BOOLEAN, size : Nat, value : Nat]

\* The entries of ptrs are about different symbols.
ASSUME PtrsAssumption ==
  /\ Ptrs \in Seq(Names)
  /\ \A j, k \in DOMAIN Ptrs : Ptrs[j] = Ptrs[k] => j = k
ASSUME NullAssumption == NULL \notin Names \cup Nat

\* As linkers make them: the first section is no table, at most one is a symbol
\* table, and no function is at address 0.
ASSUME FilesAssumption ==
  \A f \in Files :
    /\ f \in Seq([type : {"symtab", "strtab", "other"}, link : Nat, data : Seq(Symbol)])
    /\ \A k \in DOMAIN f :
         /\ k = 1 => f[k].type = "other"
         /\ f[k].type = "symtab" => \A j \in DOMAIN f : f[j].type = "symtab" => j = k
         /\ \A j \in DOMAIN f[k].data : f[k].data[j].func => f[k].data[j].value # 0

VARIABLES
  file,     \* the sections of the executable, [type, link, data]: the data of
            \* a symtab is a sequence of symbols [name, func, size, value], and
            \* that of a strtab says which names it has
  elfPc,    \* "open", "sections", "symbols", "failed", "done"
  index,    \* the loop counter
  link,     \* the section the strings should be in
  table,    \* symbols_info.symbol_table: the index of a section, or NULL
  strings,  \* symbols_info.strings
  address   \* ptrs[j].address, 0 until found

elfVars == <<file, elfPc, index, link, table, strings, address>>

\* Before XPluginStart calls locate_tables.
NotRead ==
  /\ elfPc = "open" /\ index = 0 /\ link = 0
  /\ table = NULL /\ strings = NULL
  /\ address = [j \in DOMAIN Ptrs |-> 0]

ElfInit == file \in Files /\ NotRead

Goto(from, to) == elfPc = from /\ elfPc' = to

\* locate_tables and the headers of parse_elf: fopen or fread may fail.
Open ==
  /\ Goto("open", "sections") \/ Goto("open", "failed")
  /\ index' = 0 /\ link' = 0
  /\ UNCHANGED <<file, table, strings, address>>

\* read_section: the section, or NULL when malloc, fseek or fread fails.
ReadSection(k) == {k, NULL}

\* Is section k the one the symbols link to?  Mutant: any string table is.
IsStringsAny(k) == TRUE
IsStrings(k)    == link = k

\* One pass over the section headers.  A strtab counts only if it is the one
\* a symtab before it links to.
ReadHeader ==
  /\ elfPc = "sections" /\ index < Len(file)
  /\ index' = index + 1
  /\ LET sh == file[index + 1]
     IN \/ sh.type = "symtab" /\ table' \in ReadSection(index) /\ link' = sh.link
           /\ UNCHANGED strings
        \/ sh.type = "strtab" /\ IsStrings(index) /\ strings' \in ReadSection(index)
           /\ UNCHANGED <<table, link>>
        \/ sh.type = "strtab" /\ ~IsStrings(index) /\ UNCHANGED <<table, link, strings>>
        \/ sh.type = "other" /\ UNCHANGED <<table, link, strings>>
  /\ UNCHANGED <<file, elfPc, address>>

\* A section header could not be read.
HeaderFails ==
  /\ index < Len(file)
  /\ Goto("sections", "failed")
  /\ UNCHANGED <<file, index, link, table, strings, address>>

\* The end of locate_tables.
Located ==
  /\ index = Len(file)
  /\ Goto("sections", IF table # NULL /\ strings # NULL THEN "symbols" ELSE "failed")
  /\ index' = 0
  /\ UNCHANGED <<file, link, table, strings, address>>

Symbols == file[table + 1].data

\* Mutants: an address may be replaced; an undefined symbol counts.
CandidatesAgain(name) == {j \in DOMAIN Ptrs : Ptrs[j] = name}
IsFunctionAny(sym)    == sym.name # NULL /\ sym.func

\* The first entry of ptrs with this name that has no address yet.
Candidates(name) == {j \in DOMAIN Ptrs : Ptrs[j] = name /\ address[j] = 0}
IsFunction(sym)  == sym.name # NULL /\ sym.func /\ sym.size > 0

\* One pass of find_functions over the symbols.
LookUp ==
  /\ elfPc = "symbols" /\ index < Len(Symbols)
  /\ index' = index + 1
  /\ LET sym == Symbols[index + 1]
     IN IF IsFunction(sym) /\ Candidates(sym.name) # {}
        THEN LET j == CHOOSE m \in Candidates(sym.name) :
                        \A n \in Candidates(sym.name) : m <= n
             IN address' = [address EXCEPT ![j] = sym.value]
        ELSE UNCHANGED address
  /\ UNCHANGED <<file, elfPc, link, table, strings>>

\* find_functions returns whether it found any.
Ready ==
  /\ Goto("symbols", IF \E j \in DOMAIN Ptrs : address[j] # 0 THEN "done" ELSE "failed")
  /\ index = Len(Symbols)
  /\ UNCHANGED <<file, index, link, table, strings, address>>

ElfNext == Open \/ ReadHeader \/ HeaderFails \/ Located \/ LookUp \/ Ready

ElfSpec == ElfInit /\ [][ElfNext]_elfVars

-----------------------------------------------------------------------------
(* Properties.                                                             *)

\* The strings are those the symbol table links to, of no other table.
TablesMatch == file[table + 1].type = "symtab" /\ strings = file[table + 1].link

\* The places in the table of the function symbols of a name.
Definitions(name) ==
  {k \in DOMAIN Symbols :
     Symbols[k].func /\ Symbols[k].size > 0 /\ Symbols[k].name = name}

\* When find_functions succeeds, each entry of ptrs whose function the
\* executable defines has the address of its first definition, which no later
\* symbol of the same name has moved, and no other entry has one; and the names
\* that were compared are those of the table they were looked up for.
AddressesRight ==
  elfPc = "done" =>
    /\ TablesMatch
    /\ \A j \in DOMAIN Ptrs :
         LET places == Definitions(Ptrs[j])
         IN IF places = {} THEN address[j] = 0
            ELSE \E k \in places :
                   address[j] = Symbols[k].value /\ \A m \in places : k <= m
=============================================================================
