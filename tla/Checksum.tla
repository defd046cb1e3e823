------------------------------- MODULE Checksum -------------------------------
(***************************************************************************)
(* The Internet checksum as the packet engines compute it                  *)
(* (src/packet/wire.rs, src/packet/packet.wgsl): the 16-bit words are      *)
(* added up in 32 bits, then the carries are folded back in: in a loop by  *)
(* the CPU, exactly twice by the shader.                                   *)
(***************************************************************************)
EXTENDS Integers, Sequences

Word16 == 65536

\* (sum & 0xffff) + (sum >> 16)
FoldOnce(sum) == (sum % Word16) + (sum \div Word16)

\* The loop of fold_checksum.
Folded[sum \in Nat] == IF sum < Word16 THEN sum ELSE Folded[FoldOnce(sum)]

\* wire::fold_checksum
FoldChecksum(sum) == Word16 - 1 - Folded[sum]

\* Mutant: the carry of the first fold is dropped.
FoldedOnce(sum) == Word16 - 1 - (FoldOnce(sum) % Word16)

\* checksum_fold of the shader
ChecksumFold(sum) == Word16 - 1 - (FoldOnce(FoldOnce(sum)) % Word16)

\* The sum of the bytes taken in pairs; a last odd byte counts as a high one.
Sum16(bytes) ==
    LET sum[i \in 0 .. Len(bytes)] ==
            IF i = 0 THEN 0 ELSE sum[i - 1] + (bytes[i] * (IF i % 2 = 1 THEN 256 ELSE 1))
    IN sum[Len(bytes)]
=============================================================================
