-------------------------------- MODULE Vfs --------------------------------
(***************************************************************************)
(* core/vfs.c and core/fs/ext2_initrd.c: nodes made from ext2 inodes, and  *)
(* the calls that go through a node to its file system.  Nothing in main() *)
(* calls either yet; the kernel here is any sequence of calls.             *)
(***************************************************************************)
EXTENDS Integers, Sequences, Bitwise
LOCAL INSTANCE SequencesExt

CONSTANTS
  Modes,    \* modes of the inodes of the image: a type and rights
  Garbage   \* flags of a node before it is made

FS_FILE == 1
FS_DIRECTORY == 2
FS_CHARDEVICE == 3
FS_BLOCKDEVICE == 4
FS_PIPE == 5
FS_SYMLINK == 6

EXT2_S_IFSOCK == 49152
EXT2_S_IFLNK == 40960
EXT2_S_IFREG == 32768
EXT2_S_IFBLK == 24576
EXT2_S_IFDIR == 16384
EXT2_S_IFCHR == 8192
EXT2_S_IFIFO == 4096

(* The tests of initrd_node_from_file, in order, and the flag of each.     *)
Tests ==
  << <<EXT2_S_IFREG, FS_FILE>>, <<EXT2_S_IFDIR, FS_DIRECTORY>>,
     <<EXT2_S_IFBLK, FS_BLOCKDEVICE>>, <<EXT2_S_IFCHR, FS_CHARDEVICE>>,
     <<EXT2_S_IFIFO, FS_PIPE>>, <<EXT2_S_IFLNK, FS_SYMLINK>> >>

Callback == {"read", "write", "open", "close", "readdir", "finddir"}

VARIABLES
  node,    \* the fs_node: its flags, its mask and the callbacks it has
  mode,    \* the mode of the inode it was made from, -1: none
  reached  \* the callback the last call through the node reached

vars == <<node, mode, reached>>

Init ==
  /\ node \in [flags : Garbage, mask : {0}, callbacks : {{}}]
  /\ mode = -1 /\ reached = "none"

(* initrd_node_from_file(): its name, owner and length are left out.       *)
initrd_node_from_file(m) ==
  /\ node' = [flags |-> FoldLeft(LAMBDA flags, test :
                                   IF m & test[1] # 0 THEN flags & test[2] ELSE flags,
                                 0, Tests),
              mask |-> m & 4095,
              callbacks |-> Callback]
  /\ mode' = m
  /\ UNCHANGED reached

(* Without a node to fill in it returns at once.                           *)
initrd_node_from_file_NULL == UNCHANGED vars

(* A call through the node, once it is made.                               *)
Through(callback) ==
  /\ mode # -1
  /\ reached' = callback
  /\ UNCHANGED <<node, mode>>

(* read_fs, write_fs, open_fs, close_fs.                                   *)
Forward(op) ==
  Through(IF op \in node.callbacks THEN op ELSE "none")

(* readdir_fs and finddir_fs both look at readdir.                         *)
Lookup(op) ==
  Through(IF node.flags & 7 = FS_DIRECTORY /\ "readdir" \in node.callbacks
          THEN op ELSE "none")

Next ==
  \/ \E m \in Modes : initrd_node_from_file(m)
  \/ initrd_node_from_file_NULL
  \/ \E op \in {"read", "write", "open", "close"} : Forward(op)
  \/ \E op \in {"readdir", "finddir"} : Lookup(op)

Spec == Init /\ [][Next]_vars
-----------------------------------------------------------------------------
(* readdir_fs, finddir_fs: a node made from the inode of a directory is    *)
(* one that can be searched.                                               *)
DirectoriesSearched ==
  [][\A op \in {"readdir", "finddir"} :
       Lookup(op) /\ mode & 61440 = EXT2_S_IFDIR => reached' = op]_vars
=============================================================================
