------------------------------- MODULE MCVfs -------------------------------
(* One inode of each type, readable by its owner.                          *)
EXTENDS Vfs

MCModes ==
  {type + 256 : type \in {EXT2_S_IFSOCK, EXT2_S_IFLNK, EXT2_S_IFREG, EXT2_S_IFBLK,
                          EXT2_S_IFDIR, EXT2_S_IFCHR, EXT2_S_IFIFO}}
=============================================================================
