---------------------------- MODULE RrcMessages ----------------------------
(***************************************************************************)
(* The RRC messages of 36.331 section 6.2: system information, connection  *)
(* control, security, information transfer, paging, and the messages of the *)
(* logical channels that carry them.                                       *)
(* One layout per function, named without the prefix liblte_rrc_.  Numbers *)
(* in Is, Arm and Enum are values and sizes of enumerations of liblte_rrc.h. *)
(***************************************************************************)
EXTENDS RrcSibs

pack_ul_information_transfer_msg ==
  <<Fill(0, 1), Fill(0, 2), Fill(0, 1), Enum("dedicated_info_type", 2, 3),
    Case(Off("dedicated_info_type"), <<Sub("dedicated_info", pack_dedicated_info_nas_ie)>>,
      <<Sub("dedicated_info", pack_dedicated_info_cdma2000_ie)>>)>>

unpack_ul_information_transfer_msg ==
  <<Fld("ext", 1), Skip(2), Skip(1), Enum("dedicated_info_type", 2, 3),
    Case(Off("dedicated_info_type"), <<Sub("dedicated_info", unpack_dedicated_info_nas_ie)>>,
      <<Sub("dedicated_info", unpack_dedicated_info_cdma2000_ie)>>),
    Ext("ext")>>

pack_ue_information_request_msg ==
  <<Sub("rrc_transaction_id", pack_rrc_transaction_identifier_ie), Fill(0, 1), Fill(0, 2),
    Fill(0, 1), Flags(<<"rach_report_req", "rlf_report_req">>)>>

unpack_ue_information_request_msg ==
  <<Sub("rrc_transaction_id", unpack_rrc_transaction_identifier_ie), Fld("ext", 1), Skip(2),
    Skip(1), Flags(<<"rach_report_req", "rlf_report_req">>), Ext("ext")>>

pack_ue_capability_information_msg ==
  <<Sub("rrc_transaction_id", pack_rrc_transaction_identifier_ie), Fill(0, 1), Fill(0, 3),
    Fill(0, 1), Cnt("N_ue_caps", 4, 0),
    (* The loop that copies the octets runs on the index of the loop over the *)
    (* RATs, which ends after the first one.                                  *)
    When(On("N_ue_caps"),
      <<Fill(0, 1), Enum("ue_capability_rat[0].rat_type", 3, 5),
        Octets(<<Sub("ue_capability_rat[0].eutra_capability", pack_ue_eutra_capability_ie)>>)>>)>>

unpack_ue_capability_information_msg ==
  <<Sub("rrc_transaction_id", unpack_rrc_transaction_identifier_ie), Fld("ext", 1), Skip(3),
    Skip(1), Cnt("N_ue_caps", 4, 0),
    Each("N_ue_caps", "ue_capability_rat",
      <<Skip(1), Fld("rat_type", 3), Put("n_bytes", 0),
        Read(1, 0, <<Fld("n_bytes", 7)>>,
          <<Read(1, 0, <<Fld("n_bytes", 14)>>, <<Put("n_bytes", 0)>>)>>),
        Sub("eutra_capability", unpack_ue_eutra_capability_ie)>>),
    Ext("ext")>>

pack_ue_capability_enquiry_msg ==
  <<Sub("rrc_transaction_id", pack_rrc_transaction_identifier_ie), Fill(0, 1), Fill(0, 2),
    Fill(0, 1), Bias("N_ue_cap_reqs", 3, -1),
    Times(8, "ue_capability_request", <<Sub("", pack_rat_type_ie)>>)>>

unpack_ue_capability_enquiry_msg ==
  <<Sub("rrc_transaction_id", unpack_rrc_transaction_identifier_ie), Fld("ext", 1), Skip(2),
    Skip(1), Cnt("N_ue_cap_reqs", 3, -1),
    Each("N_ue_cap_reqs", "ue_capability_request", <<Sub("", unpack_rat_type_ie)>>), Ext("ext")>>

pack_sys_info_block_type_1_msg ==
  <<Flags(<<"p_max_present", "tdd">>), Fill(0, 1), Fill(0, 1), Cnt("N_plmn_ids", 3, -1),
    Each("N_plmn_ids", "plmn_id", <<Sub("id", pack_plmn_identity_ie), Fld("resv_for_oper", 1)>>),
    Sub("tracking_area_code", pack_tracking_area_code_ie), Sub("cell_id", pack_cell_identity_ie),
    Fld("cell_barred", 1), Fld("intra_freq_reselection", 1), Fld("csg_indication", 1), Fill(0, 1),
    Sub("q_rx_lev_min", pack_q_rx_lev_min_ie),
    When(On("p_max_present"), <<Sub("p_max", pack_p_max_ie)>>), Bias("freq_band_indicator", 6, -1),
    Cnt("N_sched_info", 5, -1),
    Each("N_sched_info", "sched_info",
      <<Enum("si_periodicity", 3, 7), Cnt("N_sib_mapping_info", 5, 0),
        Each("N_sib_mapping_info", "sib_mapping_info", <<Fill(0, 1), Fld("sib_type", 4)>>)>>),
    When(On("tdd"), <<Sub("tdd_cnfg", pack_tdd_config_ie)>>), Enum("si_window_length", 3, 7),
    Fld("system_info_value_tag", 5)>>

unpack_sys_info_block_type_1_msg ==
  <<Flags(<<"p_max_present", "tdd_config_opt", "non_crit_ext_opt", "csg_id_opt">>),
    Cnt("N_plmn_ids", 3, -1),
    Each("N_plmn_ids", "plmn_id",
      <<Sub("id", unpack_plmn_identity_ie), Inherit("id.mcc", 65535), Fld("resv_for_oper", 1)>>),
    Sub("tracking_area_code", unpack_tracking_area_code_ie),
    Sub("cell_id", unpack_cell_identity_ie), Fld("cell_barred", 1),
    Fld("intra_freq_reselection", 1), Fld("csg_indication", 1),
    Case(On("csg_id_opt"), <<Sub("csg_id", unpack_csg_identity_ie)>>, <<Put("csg_id", 1073741823)>>),
    Fld("q_rx_lev_min_offset_opt", 1), Sub("q_rx_lev_min", unpack_q_rx_lev_min_ie),
    Case(On("q_rx_lev_min_offset_opt"), <<Scl("q_rx_lev_min_offset", 3, 0, 2, -1)>>,
      <<Put("q_rx_lev_min_offset", 0)>>),
    When(On("p_max_present"), <<Sub("p_max", unpack_p_max_ie)>>),
    Bias("freq_band_indicator", 6, -1), Cnt("N_sched_info", 5, -1),
    Each("N_sched_info", "sched_info",
      <<Enum("si_periodicity", 3, 7), Cnt("N_sib_mapping_info", 5, 0),
        Each("N_sib_mapping_info", "sib_mapping_info", <<Fld("extension", 1), Fld("sib_type", 4)>>)>>),
    Case(On("tdd_config_opt"), <<Put("tdd", 1), Sub("tdd_cnfg", unpack_tdd_config_ie)>>,
      <<Put("tdd", 0)>>),
    Enum("si_window_length", 3, 7), Fld("system_info_value_tag", 5), Ext("non_crit_ext_opt")>>

pack_sys_info_msg ==
  <<Fill(0, 1), Fill(0, 1), Cnt("N_sibs", 5, -1),
    Each("N_sibs", "sibs",
      <<Case(Below("sib_type", 10),
          <<Fill(0, 1), Fld("sib_type", 4),
            Switch("sib_type",
              <<Arm({0}, <<Sub("sib", pack_sys_info_block_type_2_ie)>>),
                Arm({1}, <<Sub("sib", pack_sys_info_block_type_3_ie)>>),
                Arm({2}, <<Sub("sib", pack_sys_info_block_type_4_ie)>>),
                Arm({6}, <<Sub("sib", pack_sys_info_block_type_8_ie)>>)>>, <<Fail>>)>>,
          <<Fill(1, 1), Bias("sib_type", 7, -10),
            Sized(<<Switch("sib_type",
              <<Arm({11}, <<Sub("sib", pack_sys_info_block_type_13_ie)>>)>>, <<Fail>>)>>)>>)>>)>>

unpack_sys_info_msg ==
  <<Read(1, 0,
      <<Fld("non_crit_ext_opt", 1), Cnt("N_sibs", 5, -1),
        Each("N_sibs", "sibs",
          <<Read(1, 0,
              <<Fld("sib_type", 4),
                Switch("sib_type",
                  <<Arm({0}, <<Sub("sib", unpack_sys_info_block_type_2_ie)>>),
                    Arm({1}, <<Sub("sib", unpack_sys_info_block_type_3_ie)>>),
                    Arm({2}, <<Sub("sib", unpack_sys_info_block_type_4_ie)>>),
                    Arm({3}, <<Sub("sib", unpack_sys_info_block_type_5_ie)>>),
                    Arm({4}, <<Sub("sib", unpack_sys_info_block_type_6_ie)>>),
                    Arm({5}, <<Sub("sib", unpack_sys_info_block_type_7_ie)>>),
                    Arm({6}, <<Sub("sib", unpack_sys_info_block_type_8_ie)>>)>>, <<Fail>>)>>,
              <<Bias("sib_type", 7, -10),
                Sized(<<Switch("sib_type",
                  <<Arm({11}, <<Sub("sib", unpack_sys_info_block_type_13_ie)>>)>>, <<Fail>>)>>)>>)>>),
        Ext("non_crit_ext_opt")>>, <<Fail>>)>>

pack_security_mode_failure_msg ==
  <<Sub("rrc_transaction_id", pack_rrc_transaction_identifier_ie), Fill(0, 1), Fill(0, 1)>>

unpack_security_mode_failure_msg ==
  <<Sub("rrc_transaction_id", unpack_rrc_transaction_identifier_ie), Fld("ext", 1), Skip(1),
    Ext("ext")>>

pack_security_mode_complete_msg ==
  <<Sub("rrc_transaction_id", pack_rrc_transaction_identifier_ie), Fill(0, 1), Fill(0, 1)>>

unpack_security_mode_complete_msg ==
  <<Sub("rrc_transaction_id", unpack_rrc_transaction_identifier_ie), Fld("ext", 1), Skip(1),
    Ext("ext")>>

pack_security_mode_command_msg ==
  <<Sub("rrc_transaction_id", pack_rrc_transaction_identifier_ie), Fill(0, 1), Fill(0, 2),
    Fill(0, 1), Fill(0, 1), Sub("sec_algs", pack_security_algorithm_config_ie)>>

unpack_security_mode_command_msg ==
  <<Sub("rrc_transaction_id", unpack_rrc_transaction_identifier_ie), Fld("ext", 1), Skip(2),
    Skip(1), Fld("ext2", 1), Ext("ext2"), Sub("sec_algs", unpack_security_algorithm_config_ie),
    Ext("ext")>>

pack_rrc_connection_setup_complete_msg ==
  <<Sub("rrc_transaction_id", pack_rrc_transaction_identifier_ie), Fill(0, 1), Fill(0, 2),
    Fld("registered_mme_present", 1), Fill(0, 1), Bias("selected_plmn_id", 3, -1),
    When(On("registered_mme_present"),
      <<Fld("registered_mme.plmn_id_present", 1),
        When(On("registered_mme.plmn_id_present"),
          <<Sub("registered_mme.plmn_id", pack_plmn_identity_ie)>>),
        Fld("registered_mme.mmegi", 16), Sub("registered_mme.mmec", pack_mmec_ie)>>),
    Sub("dedicated_info_nas", pack_dedicated_info_nas_ie)>>

unpack_rrc_connection_setup_complete_msg ==
  <<Sub("rrc_transaction_id", unpack_rrc_transaction_identifier_ie), Fld("ext", 1), Skip(2),
    Fld("registered_mme_present", 1), Skip(1), Bias("selected_plmn_id", 3, -1),
    When(On("registered_mme_present"),
      <<Fld("registered_mme.plmn_id_present", 1),
        When(On("registered_mme.plmn_id_present"),
          <<Sub("registered_mme.plmn_id", unpack_plmn_identity_ie)>>),
        Fld("registered_mme.mmegi", 16), Sub("registered_mme.mmec", unpack_mmec_ie)>>),
    Sub("dedicated_info_nas", unpack_dedicated_info_nas_ie), Ext("ext")>>

pack_rrc_connection_setup_msg ==
  <<Sub("rrc_transaction_id", pack_rrc_transaction_identifier_ie), Fill(0, 1), Fill(0, 3),
    Fill(0, 1), Sub("rr_cnfg", pack_rr_config_dedicated_ie)>>

unpack_rrc_connection_setup_msg ==
  <<Sub("rrc_transaction_id", unpack_rrc_transaction_identifier_ie), Fld("ext", 1), Skip(3),
    Skip(1), Sub("rr_cnfg", unpack_rr_config_dedicated_ie), Ext("ext")>>

pack_rrc_connection_request_msg ==
  <<Fill(0, 1), Fld("ue_id_type", 1),
    Case(Off("ue_id_type"), <<Sub("ue_id", pack_s_tmsi_ie)>>,
      <<Fld("ue_id.random.hi", 8), Fld("ue_id.random.lo", 32)>>),
    Fld("cause", 3), Fill(0, 1)>>

unpack_rrc_connection_request_msg ==
  <<Fld("ext", 1), Fld("ue_id_type", 1),
    Case(Off("ue_id_type"), <<Sub("ue_id", unpack_s_tmsi_ie)>>,
      <<Fld("ue_id.random.hi", 8), Fld("ue_id.random.lo", 32)>>),
    Fld("cause", 3), Ext("ext")>>

pack_rrc_connection_release_msg ==
  <<Sub("rrc_transaction_id", pack_rrc_transaction_identifier_ie), Fill(0, 1), Fill(0, 2),
    Fill(0, 1), Fill(0, 1), Fill(0, 1), Fld("release_cause", 2)>>

unpack_rrc_connection_release_msg ==
  <<Sub("rrc_transaction_id", unpack_rrc_transaction_identifier_ie), Fld("ext", 1), Skip(2),
    Skip(1), Skip(1), Skip(1), Fld("release_cause", 2), Ext("ext")>>

pack_rrc_connection_reject_msg == <<Fill(0, 1), Fill(0, 2), Fill(0, 1), Fld("wait_time", 4)>>

unpack_rrc_connection_reject_msg ==
  <<Fld("ext", 1), Skip(2), Skip(1), Fld("wait_time", 4), Ext("ext")>>

pack_rrc_connection_reestablishment_request_msg ==
  <<Fill(0, 1), Sub("ue_id.c_rnti", pack_c_rnti_ie),
    Sub("ue_id.phys_cell_id", pack_phys_cell_id_ie), Sub("ue_id.short_mac_i", pack_short_mac_i_ie),
    Fld("cause", 2), Fill(0, 2)>>

unpack_rrc_connection_reestablishment_request_msg ==
  <<Fld("ext", 1), Sub("ue_id", unpack_c_rnti_ie), Sub("ue_id", unpack_phys_cell_id_ie),
    Sub("ue_id", unpack_short_mac_i_ie), Fld("cause", 2), Ext("ext")>>

pack_rrc_connection_reestablishment_reject_msg == <<Fill(0, 1), Fill(0, 1)>>

unpack_rrc_connection_reestablishment_reject_msg == <<Fld("ext", 1), Skip(1), Ext("ext")>>

pack_rrc_connection_reestablishment_complete_msg ==
  <<Sub("rrc_transaction_id", pack_rrc_transaction_identifier_ie), Fill(0, 1), Fill(0, 1)>>

unpack_rrc_connection_reestablishment_complete_msg ==
  <<Sub("rrc_transaction_id", unpack_rrc_transaction_identifier_ie), Fld("ext", 1), Skip(1),
    Ext("ext")>>

pack_rrc_connection_reestablishment_msg ==
  <<Sub("rrc_transaction_id", pack_rrc_transaction_identifier_ie), Fill(0, 1), Fill(0, 3),
    Fill(0, 1), Sub("rr_cnfg", pack_rr_config_dedicated_ie),
    Sub("next_hop_chaining_count", pack_next_hop_chaining_count_ie)>>

unpack_rrc_connection_reestablishment_msg ==
  <<Sub("rrc_transaction_id", unpack_rrc_transaction_identifier_ie), Fld("ext", 1), Skip(3),
    Skip(1), Sub("rr_cnfg", unpack_rr_config_dedicated_ie),
    Sub("next_hop_chaining_count", unpack_next_hop_chaining_count_ie), Ext("ext")>>

pack_rrc_connection_reconfiguration_complete_msg ==
  <<Sub("rrc_transaction_id", pack_rrc_transaction_identifier_ie), Fill(0, 1), Fill(0, 1)>>

unpack_rrc_connection_reconfiguration_complete_msg ==
  <<Sub("rrc_transaction_id", unpack_rrc_transaction_identifier_ie), Fld("ext", 1), Skip(1),
    Ext("ext")>>

pack_rrc_connection_reconfiguration_msg ==
  <<Sub("rrc_transaction_id", pack_rrc_transaction_identifier_ie), Fill(0, 1), Fill(0, 3),
    Flags(<<"meas_cnfg_present", "mob_ctrl_info_present">>),
    Case(Is("N_ded_info_nas", 0), <<Fill(0, 1)>>, <<Fill(1, 1)>>),
    Flags(<<"rr_cnfg_ded_present", "sec_cnfg_ho_present">>), Fill(0, 1),
    When(On("meas_cnfg_present"), <<Sub("meas_cnfg", pack_meas_config_ie)>>),
    When(On("mob_ctrl_info_present"), <<Sub("mob_ctrl_info", pack_mobility_control_info_ie)>>),
    When(On("N_ded_info_nas"), <<Cnt("N_ded_info_nas", 4, -1)>>),
    Each("N_ded_info_nas", "ded_info_nas_list", <<Sub("", pack_dedicated_info_nas_ie)>>),
    When(On("rr_cnfg_ded_present"), <<Sub("rr_cnfg_ded", pack_rr_config_dedicated_ie)>>),
    When(On("sec_cnfg_ho_present"),
      <<Fill(0, 1), Fld("sec_cnfg_ho.ho_type", 1),
        Case(Off("sec_cnfg_ho.ho_type"),
          <<Fld("sec_cnfg_ho.intra_lte.sec_alg_cnfg_present", 1),
            When(On("sec_cnfg_ho.intra_lte.sec_alg_cnfg_present"),
              <<Sub("sec_cnfg_ho.intra_lte.sec_alg_cnfg", pack_security_algorithm_config_ie)>>),
            Fld("sec_cnfg_ho.intra_lte.key_change_ind", 1),
            Sub("sec_cnfg_ho.intra_lte.next_hop_chaining_count", pack_next_hop_chaining_count_ie)>>,
          <<Sub("sec_cnfg_ho.inter_rat.sec_alg_cnfg", pack_security_algorithm_config_ie),
            Times(6, "sec_cnfg_ho.inter_rat.nas_sec_param_to_eutra", <<Fld("", 8)>>)>>)>>)>>

unpack_rrc_connection_reconfiguration_msg ==
  <<Sub("rrc_transaction_id", unpack_rrc_transaction_identifier_ie), Fld("ext", 1), Skip(3),
    Flags(<<"meas_cnfg_present", "mob_ctrl_info_present", "ded_info_nas_list_present",
      "rr_cnfg_ded_present", "sec_cnfg_ho_present">>),
    Skip(1), When(On("meas_cnfg_present"), <<Sub("meas_cnfg", unpack_meas_config_ie)>>),
    When(On("mob_ctrl_info_present"), <<Sub("mob_ctrl_info", unpack_mobility_control_info_ie)>>),
    Case(On("ded_info_nas_list_present"),
      <<Cnt("N_ded_info_nas", 4, -1),
        Each("N_ded_info_nas", "ded_info_nas_list", <<Sub("", unpack_dedicated_info_nas_ie)>>)>>,
      <<Put("N_ded_info_nas", 0)>>),
    When(On("rr_cnfg_ded_present"), <<Sub("rr_cnfg_ded", unpack_rr_config_dedicated_ie)>>),
    When(On("sec_cnfg_ho_present"),
      <<Fld("ext2", 1), Fld("sec_cnfg_ho.ho_type", 1),
        Case(Off("sec_cnfg_ho.ho_type"),
          <<Fld("sec_cnfg_ho.intra_lte.sec_alg_cnfg_present", 1),
            When(On("sec_cnfg_ho.intra_lte.sec_alg_cnfg_present"),
              <<Sub("sec_cnfg_ho.intra_lte.sec_alg_cnfg", unpack_security_algorithm_config_ie)>>),
            Fld("sec_cnfg_ho.intra_lte.key_change_ind", 1),
            Sub("sec_cnfg_ho.intra_lte.next_hop_chaining_count", unpack_next_hop_chaining_count_ie)>>,
          <<Sub("sec_cnfg_ho.inter_rat.sec_alg_cnfg", unpack_security_algorithm_config_ie),
            Times(6, "sec_cnfg_ho.inter_rat.nas_sec_param_to_eutra", <<Fld("", 8)>>)>>),
        Ext("ext2")>>),
    Ext("ext")>>

pack_rn_reconfiguration_complete_msg ==
  <<Sub("rrc_transaction_id", pack_rrc_transaction_identifier_ie), Fill(0, 1), Fill(0, 2),
    Fill(0, 1), Fill(0, 1)>>

unpack_rn_reconfiguration_complete_msg ==
  <<Sub("rrc_transaction_id", unpack_rrc_transaction_identifier_ie), Fld("ext", 1), Skip(2),
    Skip(1), Skip(1), Ext("ext")>>

pack_proximity_indication_msg ==
  <<Fill(0, 1), Fill(0, 2), Fill(0, 1), Fld("type", 1), Fill(0, 1), Fld("carrier_freq_type", 1),
    Case(Off("carrier_freq_type"), <<Sub("carrier_freq", pack_arfcn_value_eutra_ie)>>,
      <<Sub("carrier_freq", pack_arfcn_value_utra_ie)>>)>>

unpack_proximity_indication_msg ==
  <<Fld("ext", 1), Skip(2), Skip(1), Fld("type", 1), Skip(1), Fld("carrier_freq_type", 1),
    Case(Off("carrier_freq"), <<Sub("carrier_freq", unpack_arfcn_value_eutra_ie)>>,
      <<Sub("carrier_freq", unpack_arfcn_value_utra_ie)>>),
    Ext("ext")>>

pack_paging_msg ==
  <<Opt(Some("paging_record_list_size")),
    Flags(<<"system_info_modification_present", "etws_indication_present", "non_crit_ext_present">>),
    When(On("paging_record_list_size"),
      <<Cnt("paging_record_list_size", 4, -1),
        Each("paging_record_list_size", "paging_record_list",
          <<Fill(0, 1), Fill(0, 1), Fld("ue_identity.ue_identity_type", 1),
            Case(Off("ue_identity.ue_identity_type"), <<Sub("ue_identity.s_tmsi", pack_s_tmsi_ie)>>,
              <<Cnt("ue_identity.imsi_size", 4, -6),
                Each("ue_identity.imsi_size", "ue_identity.imsi", <<Fld("", 4)>>)>>),
            Fld("cn_domain", 1)>>)>>),
    When(On("system_info_modification_present"), <<Enum("system_info_modification", 1, 1)>>),
    When(On("etws_indication_present"), <<Enum("etws_indication", 1, 1)>>),
    When(On("non_crit_ext_present"),
      <<Flags(<<"non_crit_ext.late_non_crit_ext_present", "non_crit_ext.non_crit_ext_present">>),
        When(On("non_crit_ext.non_crit_ext_present"),
          <<Flags(<<"non_crit_ext.non_crit_ext.cmas_ind_present",
              "non_crit_ext.non_crit_ext.non_crit_ext_present">>),
            When(On("non_crit_ext.non_crit_ext.cmas_ind_present"),
              <<Enum("non_crit_ext.non_crit_ext.cmas_ind_r9", 1, 1)>>)>>)>>)>>

unpack_paging_msg ==
  <<Flags(<<"paging_record_list_present", "system_info_modification_present",
      "etws_indication_present", "non_crit_ext_present">>),
    When(On("paging_record_list_present"),
      <<Cnt("paging_record_list_size", 4, -1),
        Each("paging_record_list_size", "paging_record_list",
          <<Flags(<<"ext", "ext2">>), Fld("ue_identity.ue_identity_type", 1),
            Case(Off("ue_identity.ue_identity_type"),
              <<Sub("ue_identity.s_tmsi", unpack_s_tmsi_ie)>>,
              <<Cnt("ue_identity.imsi_size", 4, -6),
                Each("ue_identity.imsi_size", "ue_identity.imsi", <<Fld("", 4)>>)>>),
            Ext("ext2"), Fld("cn_domain", 1), Ext("ext")>>)>>),
    When(On("system_info_modification_present"), <<Enum("system_info_modification", 1, 1)>>),
    When(On("etws_indication_present"), <<Enum("etws_indication", 1, 1)>>),
    When(On("non_crit_ext_present"),
      <<Flags(<<"non_crit_ext.late_non_crit_ext_present", "non_crit_ext.non_crit_ext_present">>),
        When(On("non_crit_ext.non_crit_ext_present"),
          <<Flags(<<"non_crit_ext.non_crit_ext.cmas_ind_present",
              "non_crit_ext.non_crit_ext.non_crit_ext_present">>),
            When(On("non_crit_ext.non_crit_ext.cmas_ind_present"),
              <<Enum("non_crit_ext.non_crit_ext.cmas_ind_r9", 1, 1)>>)>>)>>)>>

pack_dl_information_transfer_msg ==
  <<Sub("rrc_transaction_id", pack_rrc_transaction_identifier_ie), Fill(0, 1), Fill(0, 2),
    Fill(0, 1), Enum("dedicated_info_type", 2, 3),
    Case(Off("dedicated_info_type"), <<Sub("dedicated_info", pack_dedicated_info_nas_ie)>>,
      <<Sub("dedicated_info", pack_dedicated_info_cdma2000_ie)>>)>>

unpack_dl_information_transfer_msg ==
  <<Sub("rrc_transaction_id", unpack_rrc_transaction_identifier_ie), Fld("ext", 1), Skip(2),
    Skip(1), Enum("dedicated_info_type", 2, 3),
    Case(Off("dedicated_info_type"), <<Sub("dedicated_info", unpack_dedicated_info_nas_ie)>>,
      <<Sub("dedicated_info", unpack_dedicated_info_cdma2000_ie)>>),
    Ext("ext")>>

pack_csfb_parameters_request_cdma2000_msg == <<Fill(0, 1), Fill(0, 1)>>

unpack_csfb_parameters_request_cdma2000_msg == <<Fld("ext", 1), Skip(1), Ext("ext")>>

pack_bcch_bch_msg ==
  <<Enum("dl_bw", 3, 6), Sub("phich_config", pack_phich_config_ie), Fld("sfn_div_4", 8),
    Fill(0, 10)>>

unpack_bcch_bch_msg ==
  <<Enum("dl_bw", 3, 6), Sub("phich_config", unpack_phich_config_ie), Fld("sfn_div_4", 8)>>

pack_bcch_dlsch_msg ==
  <<Fill(0, 1),
    Case(Is("sibs[0].sib_type", 12),
      <<Fill(1, 1), Sub("sibs[0].sib", pack_sys_info_block_type_1_msg)>>,
      <<Fill(0, 1), Sub("", pack_sys_info_msg)>>)>>

unpack_bcch_dlsch_msg ==
  <<Fld("ext", 1),
    Read(1, 1,
      <<Put("N_sibs", 1), Put("sibs[0].sib_type", 12),
        Rest("sibs[0].sib", unpack_sys_info_block_type_1_msg)>>, <<Rest("", unpack_sys_info_msg)>>),
    Ext("ext")>>

pack_pcch_msg == <<Fill(0, 1), Sub("", pack_paging_msg)>>

unpack_pcch_msg == <<Skip(1), Rest("", unpack_paging_msg)>>

pack_dl_ccch_msg ==
  <<Fill(0, 1), Fld("msg_type", 2),
    Switch("msg_type",
      <<Arm({0}, <<Sub("msg", pack_rrc_connection_reestablishment_msg)>>),
        Arm({1}, <<Sub("msg", pack_rrc_connection_reestablishment_reject_msg)>>),
        Arm({2}, <<Sub("msg", pack_rrc_connection_reject_msg)>>)>>,
      <<Sub("msg", pack_rrc_connection_setup_msg)>>)>>

unpack_dl_ccch_msg ==
  <<Fld("ext", 1), Fld("msg_type", 2),
    Switch("msg_type",
      <<Arm({0}, <<Rest("msg", unpack_rrc_connection_reestablishment_msg)>>),
        Arm({1}, <<Rest("msg", unpack_rrc_connection_reestablishment_reject_msg)>>),
        Arm({2}, <<Rest("msg", unpack_rrc_connection_reject_msg)>>)>>,
      <<Rest("msg", unpack_rrc_connection_setup_msg)>>),
    Ext("ext")>>

pack_dl_dcch_msg ==
  <<Fill(0, 1), Enum("msg_type", 4, 12),
    Switch("msg_type",
      <<Arm({0}, <<>>),
        Arm({1}, <<Sub("msg", pack_dl_information_transfer_msg)>>),
        Arm({2}, <<>>),
        Arm({3}, <<>>),
        Arm({4}, <<Sub("msg", pack_rrc_connection_reconfiguration_msg)>>),
        Arm({5}, <<Sub("msg", pack_rrc_connection_release_msg)>>),
        Arm({6}, <<Sub("msg", pack_security_mode_command_msg)>>),
        Arm({7}, <<Sub("msg", pack_ue_capability_enquiry_msg)>>),
        Arm({8}, <<>>),
        Arm({9}, <<Sub("msg", pack_ue_information_request_msg)>>)>>, <<>>)>>

unpack_dl_dcch_msg ==
  <<Fld("ext", 1), Enum("msg_type", 4, 12),
    Switch("msg_type",
      <<Arm({0}, <<>>),
        Arm({1}, <<Rest("msg", unpack_dl_information_transfer_msg)>>),
        Arm({2}, <<>>),
        Arm({3}, <<>>),
        Arm({4}, <<Rest("msg", unpack_rrc_connection_reconfiguration_msg)>>),
        Arm({5}, <<Rest("msg", unpack_rrc_connection_release_msg)>>),
        Arm({6}, <<Rest("msg", unpack_security_mode_command_msg)>>),
        Arm({7}, <<Rest("msg", unpack_ue_capability_enquiry_msg)>>),
        Arm({8}, <<>>),
        Arm({9}, <<Rest("msg", unpack_ue_information_request_msg)>>)>>, <<>>),
    Ext("ext")>>

pack_ul_ccch_msg ==
  <<Fill(0, 1), Fld("msg_type", 1),
    Case(Off("msg_type"), <<Sub("msg", pack_rrc_connection_reestablishment_request_msg)>>,
      <<Sub("msg", pack_rrc_connection_request_msg)>>)>>

unpack_ul_ccch_msg ==
  <<Fld("ext", 1), Fld("msg_type", 1),
    Case(Off("msg_type"), <<Rest("msg", unpack_rrc_connection_reestablishment_request_msg)>>,
      <<Rest("msg", unpack_rrc_connection_request_msg)>>),
    Ext("ext")>>

pack_ul_dcch_msg ==
  <<Fill(0, 1), Fld("msg_type", 4),
    Switch("msg_type",
      <<Arm({0}, <<Sub("msg", pack_csfb_parameters_request_cdma2000_msg)>>),
        Arm({1}, <<>>),
        Arm({2}, <<Sub("msg", pack_rrc_connection_reconfiguration_complete_msg)>>),
        Arm({3}, <<Sub("msg", pack_rrc_connection_reestablishment_complete_msg)>>),
        Arm({4}, <<Sub("msg", pack_rrc_connection_setup_complete_msg)>>),
        Arm({5}, <<Sub("msg", pack_security_mode_complete_msg)>>),
        Arm({6}, <<Sub("msg", pack_security_mode_failure_msg)>>),
        Arm({7}, <<Sub("msg", pack_ue_capability_information_msg)>>),
        Arm({8}, <<>>),
        Arm({9}, <<Sub("msg", pack_ul_information_transfer_msg)>>),
        Arm({10}, <<>>),
        Arm({11}, <<>>),
        Arm({12}, <<Sub("msg", pack_proximity_indication_msg)>>)>>,
      <<Sub("msg", pack_rn_reconfiguration_complete_msg)>>)>>

unpack_ul_dcch_msg ==
  <<Fld("ext", 1), Fld("msg_type", 4),
    Switch("msg_type",
      <<Arm({0}, <<Rest("msg", unpack_csfb_parameters_request_cdma2000_msg)>>),
        Arm({1}, <<>>),
        Arm({2}, <<Rest("msg", unpack_rrc_connection_reconfiguration_complete_msg)>>),
        Arm({3}, <<Rest("msg", unpack_rrc_connection_reestablishment_complete_msg)>>),
        Arm({4}, <<Rest("msg", unpack_rrc_connection_setup_complete_msg)>>),
        Arm({5}, <<Rest("msg", unpack_security_mode_complete_msg)>>),
        Arm({6}, <<Rest("msg", unpack_security_mode_failure_msg)>>),
        Arm({7}, <<>>),
        Arm({8}, <<>>),
        Arm({9}, <<Rest("msg", unpack_ul_information_transfer_msg)>>),
        Arm({10}, <<>>),
        Arm({11}, <<>>),
        Arm({12}, <<Rest("msg", unpack_proximity_indication_msg)>>)>>,
      <<Rest("msg", unpack_rn_reconfiguration_complete_msg)>>),
    Ext("ext")>>

============================================================================
