------------------------------- MODULE MCCpu --------------------------------
(* Cartridges that set every register, run one instruction, and then a few *)
(* more that are its own operand bytes.  The stack is at the end of WRAM,  *)
(* below addresses that read as the invalid opcode $FF.                    *)
EXTENDS CpuPrograms

MCProgramAddress == 49152 .. 49159

MCAddress == (57336 .. 57343) \cup {57088, 57089, 65295, 65535}

LoadAll(af, de) ==
  <<49, 0, 224, 1, Lo(af), Hi(af), 197, 241, 17, Lo(de), Hi(de), 33, 252, 223>>

Tails == {<<18, 0, 193>>, <<193, 254, 118>>, <<15, 255, 118>>, <<245, 254, 0>>}
CbTails == {<<25, 0, 193>>, <<26, 0, 193>>, <<56, 0, 193>>}

MCRoms ==
  {Rom(0, <<0, 0, 0, 0>>, LoadAll(af, de) \o <<op>> \o tail) :
     af \in {0, 240, 65408, 32799}, de \in {57342},
     op \in Opcodes \cup {118}, tail \in Tails}
  \cup {Rom(0, <<0, 0, 0, 0>>, LoadAll(af, 57342) \o <<203>> \o tail) :
          af \in {0, 256, 65520}, tail \in CbTails}
=============================================================================
